---- MODULE Spec2Model ----
(***************************************************************************)
(* A model of spdx_verify.py: the SPDX header matcher, the language        *)
(* registry, the skip rules and the path walker of `verify`.               *)
(*                                                                         *)
(* Python strings are TLA+ strings (TLC evaluates Len, SubSeq and \o on    *)
(* them); a file's content is one string with "\n" line breaks.            *)
(***************************************************************************)
EXTENDS Integers, Sequences, FiniteSets, TLC

VARIABLES
    \* ---- what one run is given (fixed during the run)
    env,                \* the file system and git, see MakeEnv
    args,               \* the call: entry point and its arguments
    \* ---- the state of the run
    pc,                 \* position in verify() / verify_directory()
    verifier,           \* SPDXVerifier fields other than stats
    git_tracked_files,  \* the tracked-file filter ([none |-> TRUE] is None)
    path_idx,           \* index in args.paths of the path being processed
    cur_dir,            \* the directory verify_directory was called with
    dir_todo,           \* the files of cur_dir rglob has still to yield, in order
    dir_passed,         \* verify_directory's local all_passed
    dir_result,         \* <<>>, or <<b>> once the last verify_directory call returned b
    stats,              \* SPDXVerifier.stats
    all_passed,         \* verify's all_passed
    reuse,              \* <<>>, or <<r>> once verify_reuse_compliance returned r
    exit_code,          \* <<>> while running; <<0>> on return, <<1>> on sys.exit(1)
    output,             \* the lines printed (debug on), as records, in order
    \* ---- one direct call of check_license_header (specification SpecHeader)
    h_in,               \* its inputs: a path and a pair of files
    h_out               \* <<>>, or the two verdicts returned

vars == <<env, args, pc, verifier, git_tracked_files, path_idx, cur_dir, dir_todo,
          dir_passed, dir_result, stats, all_passed, reuse, exit_code, output,
          h_in, h_out>>

inVars == <<env, args>>
runVars == <<pc, verifier, git_tracked_files, path_idx, cur_dir, dir_todo,
             dir_passed, dir_result, stats, all_passed, reuse, exit_code, output>>
hdrVars == <<h_in, h_out>>

\* Python's None, where a variable holds None or a value of another type.
None == "None"

(***************************************************************************)
(* Strings                                                                 *)
(***************************************************************************)

\* Python `sub in s`.
Contains(sub, s) ==
    \E i \in 1..(Len(s) - Len(sub) + 1) : SubSeq(s, i, i + Len(sub) - 1) = sub

\* Python s.startswith(p) and s.endswith(p).
StartsWith(s, p) == Len(p) <= Len(s) /\ SubSeq(s, 1, Len(p)) = p
EndsWith(s, p) == Len(p) <= Len(s) /\ SubSeq(s, Len(s) - Len(p) + 1, Len(s)) = p

\* The characters str.strip() removes (those that occur in the model).
IsSpace(c) == c \in {" ", "\t", "\r"}

\* The least and the greatest element of a non-empty set of integers.
Min(S) == CHOOSE x \in S : \A y \in S : x <= y
Max(S) == CHOOSE x \in S : \A y \in S : x >= y

\* Python s.lstrip() and s.rstrip(): up to the first, from the last,
\* character that is not white space.
LStrip(s) ==
    LET keep == {i \in 1..Len(s) : ~IsSpace(SubSeq(s, i, i))}
    IN  IF keep = {} THEN "" ELSE SubSeq(s, Min(keep), Len(s))

RStrip(s) ==
    LET keep == {i \in 1..Len(s) : ~IsSpace(SubSeq(s, i, i))}
    IN  IF keep = {} THEN "" ELSE SubSeq(s, 1, Max(keep))

\* Python s.strip().
Strip(s) == LStrip(RStrip(s))

\* The lower-case form of each upper-case letter.
LowerOf ==
    [A |-> "a", B |-> "b", C |-> "c", D |-> "d", E |-> "e", F |-> "f", G |-> "g",
     H |-> "h", I |-> "i", J |-> "j", K |-> "k", L |-> "l", M |-> "m", N |-> "n",
     O |-> "o", P |-> "p", Q |-> "q", R |-> "r", S |-> "s", T |-> "t", U |-> "u",
     V |-> "v", W |-> "w", X |-> "x", Y |-> "y", Z |-> "z"]

LowerChar(c) == IF c \in DOMAIN LowerOf THEN LowerOf[c] ELSE c

\* Python s.lower().
RECURSIVE Lower(_)
Lower(s) ==
    IF Len(s) = 0 THEN s
    ELSE IF Len(s) = 1 THEN LowerChar(s)
    ELSE LET h == Len(s) \div 2
         IN  Lower(SubSeq(s, 1, h)) \o Lower(SubSeq(s, h + 1, Len(s)))

\* Index of the first occurrence of sep in s at or after position i, 0 if none.
Find(s, sep, i) ==
    LET hits == {j \in i..(Len(s) - Len(sep) + 1) : SubSeq(s, j, j + Len(sep) - 1) = sep}
    IN  IF hits = {} THEN 0 ELSE Min(hits)

\* Python s.split(sep): never empty, "" splits to [""].
RECURSIVE Split(_, _)
Split(s, sep) ==
    LET i == Find(s, sep, 1)
    IN  IF i = 0 THEN <<s>>
        ELSE <<SubSeq(s, 1, i - 1)>> \o Split(SubSeq(s, i + Len(sep), Len(s)), sep)

\* Python s[:n] on a list.
Take(seq, n) == SubSeq(seq, 1, IF Len(seq) < n THEN Len(seq) ELSE n)

\* Index of the last occurrence of character c in s, 0 if none (str.rfind + 1).
RFind(s, c, i) ==
    LET hits == {j \in 1..i : SubSeq(s, j, j) = c}
    IN  IF hits = {} THEN 0 ELSE Max(hits)

\* Path(p).name: the final component.
PathName(p) == SubSeq(p, RFind(p, "/", Len(p)) + 1, Len(p))

\* Path(p).suffix: from the last dot of the name, unless the name starts or
\* ends with that dot.
PathSuffix(p) ==
    LET name == PathName(p)
        i == RFind(name, ".", Len(name))
    IN  IF 1 < i /\ i < Len(name) THEN SubSeq(name, i, Len(name)) ELSE ""

(***************************************************************************)
(* Configuration and the language registry                                 *)
(***************************************************************************)

SPDX_LICENSE_IDENTIFIER == "SPDX-License-Identifier:"
SPDX_FILE_COPYRIGHT == "SPDX-FileCopyrightText:"
DEFAULT_LICENSE == "Apache-2.0"
DEFAULT_COPYRIGHT == "The Linux Foundation"

\* default_config["languages"], in insertion order. No built-in language has
\* a "filenames" key.
DefaultLanguages == <<
    [name |-> "python",     extensions |-> <<".py", ".pyx", ".pyi">>, filenames |-> <<>>],
    [name |-> "javascript", extensions |-> <<".js", ".jsx", ".ts", ".tsx">>, filenames |-> <<>>],
    [name |-> "css",        extensions |-> <<".css", ".scss", ".sass", ".less">>, filenames |-> <<>>],
    [name |-> "html",       extensions |-> <<".html", ".xml", ".svg">>, filenames |-> <<>>],
    [name |-> "shell",      extensions |-> <<".sh", ".bash", ".zsh">>, filenames |-> <<>>],
    [name |-> "c_cpp",      extensions |-> <<".c", ".cpp", ".h", ".hpp", ".cc", ".cxx">>, filenames |-> <<>>],
    [name |-> "java",       extensions |-> <<".java">>, filenames |-> <<>>],
    [name |-> "rust",       extensions |-> <<".rs">>, filenames |-> <<>>],
    [name |-> "go",         extensions |-> <<".go">>, filenames |-> <<>>],
    [name |-> "ruby",       extensions |-> <<".rb", ".rake">>, filenames |-> <<>>],
    [name |-> "php",        extensions |-> <<".php">>, filenames |-> <<>>],
    [name |-> "yaml",       extensions |-> <<".yml", ".yaml">>, filenames |-> <<>>],
    [name |-> "dockerfile", extensions |-> <<"Dockerfile", "dockerfile">>, filenames |-> <<>>],
    [name |-> "makefile",   extensions |-> <<"Makefile", "makefile", ".mk">>, filenames |-> <<>>],
    [name |-> "markdown",   extensions |-> <<".md", ".markdown">>, filenames |-> <<>>] >>

\* default_config["default_skip_patterns"].
DefaultSkipPatterns == <<
    "*.min.js", "*.min.css", "node_modules/**", ".git/**", "__pycache__/**",
    "__pypackages__/**", "*.pyc", "*.pyo", "*.pyd", ".pytest_cache/**",
    ".mypy_cache/**", ".DS_Store", "*.log", "*.egg-info/**", "dist/**",
    "build/**", ".venv/**", "venv/**" >>

\* What load_config returns when spdx-config.yaml is missing or unreadable.
\* default_file_type is absent there: config.get("default_file_type", {})
\* then reads enabled as False and language as None.
DefaultConfig ==
    [languages |-> DefaultLanguages,
     default_skip_patterns |-> DefaultSkipPatterns,
     default_file_type |-> [enabled |-> FALSE, language |-> None]]

\* A Python dict kept as a sequence of <<key, value>> in insertion order.
DictHas(d, k) == \E i \in 1..Len(d) : d[i][1] = k
DictGet(d, k) == d[CHOOSE i \in 1..Len(d) : d[i][1] = k][2]

\* The assignments `d[x.lower()] = lang_name` of the loops of __init__ over
\* the first n languages, in order, as <<key, language>>; field is
\* "extensions" or "filenames".
RECURSIVE Assignments(_, _, _)
Assignments(langs, field, n) ==
    IF n = 0 THEN <<>>
    ELSE Assignments(langs, field, n - 1)
         \o [j \in 1..Len(langs[n][field]) |-> <<Lower(langs[n][field][j]), langs[n].name>>]

\* The dict those assignments leave: a key stands where it was first
\* assigned and holds the language that assigned it last.
DictOf(asg) ==
    LET IsFirst(i) == \A j \in 1..(i - 1) : asg[j][1] # asg[i][1]
        firsts == SelectSeq([i \in 1..Len(asg) |-> i], IsFirst)
        lastOf(k) == Max({i \in 1..Len(asg) : asg[i][1] = k})
        Entry(i) == <<asg[i][1], asg[lastOf(asg[i][1])][2]>>
        Keep(e) == TRUE
    IN  SelectSeq([i \in 1..Len(firsts) |-> Entry(firsts[i])], Keep)
BuildDict(langs, field) == DictOf(Assignments(langs, field, Len(langs)))

\* self.ext_to_lang and self.filename_to_lang as __init__ builds them.
ext_to_lang(config) == BuildDict(config.languages, "extensions")
filename_to_lang(config) == BuildDict(config.languages, "filenames")

\* load_config: without spdx-config.yaml (config_file = <<>>) the built-in
\* configuration; with it, default_config.copy() updated by the loaded
\* mapping, so a top-level key of the file replaces the built-in value whole.
\* A key the file lacks is <<>> in config_file[1].
load_config(config_file) ==
    IF config_file = <<>> THEN DefaultConfig
    ELSE LET loaded == config_file[1]
         IN  [languages |->
                  IF loaded.languages = <<>> THEN DefaultConfig.languages
                  ELSE loaded.languages[1],
              default_skip_patterns |->
                  IF loaded.default_skip_patterns = <<>>
                  THEN DefaultConfig.default_skip_patterns
                  ELSE loaded.default_skip_patterns[1],
              default_file_type |->
                  IF loaded.default_file_type = <<>> THEN DefaultConfig.default_file_type
                  ELSE loaded.default_file_type[1]]

\* The keys of config["languages"].
LanguageNames(config) == {config.languages[i].name : i \in 1..Len(config.languages)}

\* The legacy fallback without its endswith test: only a file name equal to
\* an extension string matches.
LegacyMatchExact(d, lname) ==
    LET hits == {i \in 1..Len(d) : lname = Lower(d[i][1])}
    IN  IF hits = {} THEN 0 ELSE CHOOSE i \in hits : \A j \in hits : i <= j

\* The legacy loop of get_language_for_file: the first entry of ext_to_lang,
\* in insertion order, that the lowered name equals or ends with (0 if none).
LegacyMatch(d, lname) ==
    LET hits == {i \in 1..Len(d) : lname = Lower(d[i][1]) \/ EndsWith(lname, Lower(d[i][1]))}
    IN  IF hits = {} THEN 0 ELSE CHOOSE i \in hits : \A j \in hits : i <= j

\* get_language_for_file trying the exact file name before the extension.
get_language_for_file_name_first(v, file_path) ==
    LET suffix == Lower(PathSuffix(file_path))
        name == PathName(file_path)
        legacy == LegacyMatch(v.ext_to_lang, Lower(name))
    IN  IF DictHas(v.filename_to_lang, Lower(name))
        THEN DictGet(v.filename_to_lang, Lower(name))
        ELSE IF DictHas(v.ext_to_lang, suffix) THEN DictGet(v.ext_to_lang, suffix)
        ELSE IF legacy # 0 THEN v.ext_to_lang[legacy][2]
        ELSE None

\* SPDXVerifier.get_language_for_file; None is returned as None.
get_language_for_file(v, file_path) ==
    LET suffix == Lower(PathSuffix(file_path))
        name == PathName(file_path)
        legacy == LegacyMatch(v.ext_to_lang, Lower(name))
        should_use_default ==
            IF v.enable_default_file_type THEN TRUE
            ELSE IF ~v.disable_default_file_type THEN v.config_default_file_type.enabled
            ELSE FALSE
        default_lang ==
            IF v.default_file_type_override # None /\ v.default_file_type_override # ""
            THEN v.default_file_type_override
            ELSE v.config_default_file_type.language
    IN  IF DictHas(v.ext_to_lang, suffix) THEN DictGet(v.ext_to_lang, suffix)
        ELSE IF DictHas(v.filename_to_lang, Lower(name))
        THEN DictGet(v.filename_to_lang, Lower(name))
        ELSE IF legacy # 0 THEN v.ext_to_lang[legacy][2]
        ELSE IF should_use_default /\ default_lang # None /\ default_lang # ""
                /\ default_lang \in v.language_names
        THEN default_lang
        ELSE None

(***************************************************************************)
(* The header matcher                                                      *)
(***************************************************************************)

\* check_license_header looks at content.split("\n")[:10].
ScanLines == 10

\* The text of the OSError open() raises for an unreadable file; it names
\* the path.
ReadErrorText(file_path) == "[Errno 13] Permission denied: '" \o file_path \o "'"

\* first_lines, each line stripped as the loop does before testing it.
FirstLinesAll(content) == Split(content, "\n")
FirstLines(content) == Take(Split(content, "\n"), ScanLines)

ScannedLine(line) == Strip(line)

\* The four flags after the loop over first_lines.
LicenseFound(lines) ==
    \E i \in 1..Len(lines) : Contains("SPDX-License-Identifier:", ScannedLine(lines[i]))
CopyrightFound(lines) ==
    \E i \in 1..Len(lines) : Contains("SPDX-FileCopyrightText:", ScannedLine(lines[i]))
\* The expected license looked for on any scanned line, not the marker's.
CorrectLicenseAnyLine(lines, license_id) ==
    /\ \E i \in 1..Len(lines) : Contains("SPDX-License-Identifier:", ScannedLine(lines[i]))
    /\ \E i \in 1..Len(lines) : Contains(license_id, ScannedLine(lines[i]))
CorrectLicense(lines, license_id) ==
    \E i \in 1..Len(lines) :
        /\ Contains("SPDX-License-Identifier:", ScannedLine(lines[i]))
        /\ Contains(license_id, ScannedLine(lines[i]))
CorrectCopyright(lines, copyright_holder) ==
    \E i \in 1..Len(lines) :
        /\ Contains("SPDX-FileCopyrightText:", ScannedLine(lines[i]))
        /\ Contains(copyright_holder, ScannedLine(lines[i]))

\* The chain with the "wrong" rows tested before the "missing" rows.
DetermineResultWrongFirst(license_found, copyright_found, correct_license, correct_copyright, license_id, copyright_holder) ==
    IF ~correct_license /\ ~correct_copyright /\ (license_found \/ copyright_found)
    THEN [passed |-> FALSE,
          message |-> "Wrong license and copyright (expected " \o license_id
                      \o " and " \o copyright_holder \o ")"]
    ELSE IF ~correct_license /\ license_found
    THEN [passed |-> FALSE, message |-> "Wrong license (expected " \o license_id \o ")"]
    ELSE IF ~correct_copyright /\ copyright_found
    THEN [passed |-> FALSE,
          message |-> "Wrong copyright (expected " \o copyright_holder \o ")"]
    ELSE IF ~license_found /\ ~copyright_found
    THEN [passed |-> FALSE, message |-> "Missing both license and copyright headers"]
    ELSE IF ~license_found
    THEN [passed |-> FALSE, message |-> "Missing license header"]
    ELSE IF ~copyright_found
    THEN [passed |-> FALSE, message |-> "Missing copyright header"]
    ELSE [passed |-> TRUE, message |-> "Valid SPDX headers found"]

\* The if/elif chain "Determine result" of check_license_header.
DetermineResult(license_found, copyright_found, correct_license, correct_copyright, license_id, copyright_holder) ==
    IF ~license_found /\ ~copyright_found
    THEN [passed |-> FALSE, message |-> "Missing both license and copyright headers"]
    ELSE IF ~license_found
    THEN [passed |-> FALSE, message |-> "Missing license header"]
    ELSE IF ~copyright_found
    THEN [passed |-> FALSE, message |-> "Missing copyright header"]
    ELSE IF ~correct_license /\ ~correct_copyright
    THEN [passed |-> FALSE,
          message |-> "Wrong license and copyright (expected " \o license_id
                      \o " and " \o copyright_holder \o ")"]
    ELSE IF ~correct_license
    THEN [passed |-> FALSE, message |-> "Wrong license (expected " \o license_id \o ")"]
    ELSE IF ~correct_copyright
    THEN [passed |-> FALSE,
          message |-> "Wrong copyright (expected " \o copyright_holder \o ")"]
    ELSE [passed |-> TRUE, message |-> "Valid SPDX headers found"]

\* check_license_header taking a file it cannot read for an empty one.
check_license_header_unguarded(v, file_path, file) ==
    IF get_language_for_file(v, file_path) = None
    THEN [passed |-> TRUE, message |-> "Unknown file type, skipping"]
    ELSE DetermineResult(FALSE, FALSE, FALSE, FALSE, v.license_id, v.copyright_holder)

\* check_license_header opening the file before it resolves the language.
check_license_header_reads_first(v, file_path, file) ==
    IF ~file.readable
    THEN [passed |-> FALSE, message |-> "Error reading file: " \o ReadErrorText(file_path)]
    ELSE IF get_language_for_file(v, file_path) = None
    THEN [passed |-> TRUE, message |-> "Unknown file type, skipping"]
    ELSE LET first_lines == FirstLines(file.content)
         IN  DetermineResult(LicenseFound(first_lines), CopyrightFound(first_lines),
                             CorrectLicense(first_lines, v.license_id),
                             CorrectCopyright(first_lines, v.copyright_holder),
                             v.license_id, v.copyright_holder)

\* SPDXVerifier.check_license_header on a file with the given content;
\* readable = FALSE is an open()/read() that raises OSError.
check_license_header(v, file_path, file) ==
    IF get_language_for_file(v, file_path) = None
    THEN [passed |-> TRUE, message |-> "Unknown file type, skipping"]
    ELSE IF ~file.readable
    THEN [passed |-> FALSE, message |-> "Error reading file: " \o ReadErrorText(file_path)]
    ELSE LET first_lines == FirstLines(file.content)
         IN  DetermineResult(LicenseFound(first_lines), CopyrightFound(first_lines),
                             CorrectLicense(first_lines, v.license_id),
                             CorrectCopyright(first_lines, v.copyright_holder),
                             v.license_id, v.copyright_holder)

(***************************************************************************)
(* Inputs of the header matcher                                            *)
(***************************************************************************)

\* Lines before the first declaration line: 0..MaxLead, so that a
\* declaration lands on every line from 1 to beyond ScanLines.
MaxLead == 10
\* Length of the padding of a long line.
LongLen == 40

RECURSIVE Repeat(_, _)
Repeat(s, n) ==
    IF n = 0 THEN ""
    ELSE IF n = 1 THEN s
    ELSE Repeat(s, n \div 2) \o Repeat(s, n - (n \div 2))

\* A comment line without any marker, and its long form.
FillerLine == "# x"
LongLine == "# " \o Repeat("x", LongLen)

\* Lines a header region may hold: declarations right and wrong, a marker
\* inside code, the expected values without a marker, surrounding blanks, a
\* trailing blank, both markers on one line.
HeaderLines == {
    "def hello(): pass",
    "# SPDX-License-Identifier: Apache-2.0",
    "# SPDX-License-Identifier: MIT",
    "// SPDX-FileCopyrightText: 2025 The Linux Foundation",
    "# SPDX-FileCopyrightText: 2024 Other Corp",
    "x = 'SPDX-License-Identifier: Apache-2.0'",
    "# License MIT Apache-2.0, Other Corp, The Linux Foundation",
    " \t/* SPDX-FileCopyrightText: 2025 The Linux Foundation */ ",
    "# SPDX-License-Identifier: MIT ",
    "SPDX-License-Identifier: MIT SPDX-FileCopyrightText: Other Corp" }

\* Lines that replace the last line in the second file of a pair.
TailLines == {
    "def hello(): pass",
    "# SPDX-License-Identifier: Apache-2.0",
    "# SPDX-FileCopyrightText: 2024 Other Corp" }

\* The expected (license, copyright holder) of a run; the third has a
\* trailing blank, as an unquoted environment value may.
ExpectedPairs == {
    <<"Apache-2.0", "The Linux Foundation">>,
    <<"MIT", "Other Corp">>,
    <<"MIT ", "Other Corp">> }

\* n filler lines, line a, g filler lines, line b.
BuildContent(filler, n, a, g, b) ==
    Repeat(filler \o "\n", n) \o a \o "\n" \o Repeat(filler \o "\n", g) \o b

\* A verifier with the given expected values and every option at its default.
MakeVerifier(license_id, copyright_holder, skip_patterns) ==
    [license_id |-> license_id,
     copyright_holder |-> copyright_holder,
     skip_patterns |-> skip_patterns,
     disable_default_file_type |-> FALSE,
     enable_default_file_type |-> FALSE,
     default_file_type_override |-> None,
     config_default_file_type |-> DefaultConfig.default_file_type,
     language_names |-> LanguageNames(DefaultConfig),
     ext_to_lang |-> ext_to_lang(DefaultConfig),
     filename_to_lang |-> filename_to_lang(DefaultConfig),
     has_pathspec |-> TRUE]

(***************************************************************************)
(* Skip rules                                                              *)
(***************************************************************************)

\* fnmatch.fnmatch on POSIX for patterns of literals, "*" and "?": "*" also
\* matches "/".
RECURSIVE WildMatch(_, _)
WildMatch(pat, s) ==
    IF Len(pat) = 0 THEN Len(s) = 0
    ELSE LET c == SubSeq(pat, 1, 1)
             rest == SubSeq(pat, 2, Len(pat))
         IN  IF c = "*"
             THEN WildMatch(rest, s) \/ (Len(s) > 0 /\ WildMatch(pat, SubSeq(s, 2, Len(s))))
             ELSE /\ Len(s) > 0
                  /\ (c = "?" \/ SubSeq(s, 1, 1) = c)
                  /\ WildMatch(rest, SubSeq(s, 2, Len(s)))

\* _glob_match testing the bare name only.
glob_match_name_only(path, pattern) ==
    IF Contains("*", pattern) THEN WildMatch(pattern, PathName(path))
    ELSE pattern = PathName(path)

\* SPDXVerifier._glob_match, the matcher used without pathspec.
glob_match(path, pattern) ==
    IF Contains("*", pattern)
    THEN WildMatch(pattern, path) \/ WildMatch(pattern, PathName(path))
    ELSE Contains(pattern, path) \/ pattern = PathName(path)

\* The segments of a pattern against the components of a path: segs is the
\* pattern without a leading and a trailing empty segment, anchored tells
\* that it has an inner "/", dirOnly that it ended in "/".
MatchAnchored(segs, anchored, dirOnly, comps) ==
    LET deep == segs[Len(segs)] = "**"
        fixed == IF deep THEN SubSeq(segs, 1, Len(segs) - 1) ELSE segs
    IN  IF ~anchored
        THEN \E k \in 1..Len(comps) :
                /\ WildMatch(segs[1], comps[k])
                /\ (dirOnly => k < Len(comps))
        ELSE /\ Len(comps) >= Len(fixed) + (IF deep \/ dirOnly THEN 1 ELSE 0)
             /\ \A k \in 1..Len(fixed) : WildMatch(fixed[k], comps[k])
MatchTrimmed(segs1, dirOnly, comps) ==
    MatchAnchored(IF Len(segs1) > 1 /\ segs1[1] = "" THEN Tail(segs1) ELSE segs1,
                  Len(segs1) > 1, dirOnly, comps)
MatchSegments(segs0, comps) ==
    MatchTrimmed(IF Len(segs0) > 1 /\ segs0[Len(segs0)] = ""
                 THEN SubSeq(segs0, 1, Len(segs0) - 1) ELSE segs0,
                 Len(segs0) > 1 /\ segs0[Len(segs0)] = "", comps)

\* pathspec's "gitwildmatch" for one pattern without negation: a pattern of
\* one segment (or one segment and a trailing "/") matches any component of
\* the path, the files below a matching directory included; a pattern with
\* an inner "/" is anchored at the start of the path, and a final "**"
\* stands for everything below.
GitWildMatch(pattern, path) == MatchSegments(Split(pattern, "/"), Split(path, "/"))

\* pathspec's normalize_file: a leading "/" is dropped before matching.
NormalizeFile(path) == IF StartsWith(path, "/") THEN SubSeq(path, 2, Len(path)) ELSE path

\* A pattern line starting with "!" is a negation: it matches what the rest
\* of the line matches and excludes it.
IsNegation(pattern) == StartsWith(pattern, "!")
PatternBody(pattern) == IF IsNegation(pattern) THEN SubSeq(pattern, 2, Len(pattern)) ELSE pattern

\* self.pathspec_matcher.match_file(path) for the matcher compiled from the
\* list patterns: the last pattern of the list that matches the path decides,
\* and the path is matched unless that pattern is a negation.
LastMatchIncludes(patterns, hits) == hits # {} /\ ~IsNegation(patterns[Max(hits)])
PathspecMatchFile(patterns, path) ==
    LastMatchIncludes(patterns,
        {i \in 1..Len(patterns) : GitWildMatch(PatternBody(patterns[i]), NormalizeFile(path))})

\* SPDXVerifier.should_skip_file. The matcher is compiled only when pathspec
\* is importable and there is at least one pattern.
should_skip_file(v, file_path) ==
    LET path_str == file_path
        relative_path == PathName(file_path)
    IN  IF v.has_pathspec /\ v.skip_patterns # <<>>
        THEN PathspecMatchFile(v.skip_patterns, path_str)
             \/ PathspecMatchFile(v.skip_patterns, relative_path)
        ELSE \E i \in 1..Len(v.skip_patterns) :
                \/ glob_match(path_str, v.skip_patterns[i])
                \/ glob_match(relative_path, v.skip_patterns[i])

\* The elements of a sequence.
Range(seq) == {seq[i] : i \in 1..Len(seq)}

\* The list without its repeated elements, each kept where it stands first.
RECURSIVE Dedupe(_)
Dedupe(seq) ==
    IF seq = <<>> THEN <<>>
    ELSE LET before == Dedupe(SubSeq(seq, 1, Len(seq) - 1))
             last == seq[Len(seq)]
         IN  IF \E i \in 1..Len(before) : before[i] = last THEN before
             ELSE Append(before, last)

RECURSIVE Reverse(_)
Reverse(seq) == IF seq = <<>> THEN <<>> ELSE Append(Reverse(Tail(seq)), Head(seq))

\* list(set(seq)): the elements once each, in the order the string hashes of
\* the process give. Two of the possible orders are kept, chosen by the
\* environment: the order of first occurrence and its reverse.
HashOrders == {"forward", "backward"}
ListOfSet(seq, hash_order) ==
    IF hash_order = "forward" THEN Dedupe(seq) ELSE Reverse(Dedupe(seq))

\* SPDXVerifier.__init__, the fields the run reads: the skip patterns are
\* list(set(default + .gitignore + caller patterns)).
VerifierWith(a, e, config) ==
    [license_id |-> a.license,
     copyright_holder |-> a.copyright_holder,
     skip_patterns |-> ListOfSet(config.default_skip_patterns \o e.gitignore \o a.skip,
                                 e.hash_order),
     disable_default_file_type |-> a.disable_default_file_type,
     enable_default_file_type |-> a.enable_default_file_type,
     default_file_type_override |-> a.default_file_type_override,
     config_default_file_type |-> config.default_file_type,
     language_names |-> LanguageNames(config),
     ext_to_lang |-> ext_to_lang(config),
     filename_to_lang |-> filename_to_lang(config),
     has_pathspec |-> e.has_pathspec]
NewVerifier(a, e) == VerifierWith(a, e, load_config(e.config_file))

InitialStats ==
    [checked |-> 0, passed |-> 0, missing_license |-> 0, missing_copyright |-> 0,
     wrong_license |-> 0, wrong_copyright |-> 0, skipped |-> 0]

(***************************************************************************)
(* REUSE compliance                                                        *)
(***************************************************************************)

\* extract_license_identifiers_from_file reads content.split("\n")[:20].
ReuseScanLines == 20

\* Python s.replace(old, "").
RECURSIVE Remove(_, _)
Remove(s, old) ==
    LET i == Find(s, old, 1)
    IN  IF i = 0 THEN s
        ELSE SubSeq(s, 1, i - 1) \o Remove(SubSeq(s, i + Len(old), Len(s)), old)

\* The identifier one stripped line yields: parts[1] of the split at the
\* marker, without "-->" and "*/".
LicensePart(line) ==
    Strip(Remove(Remove(Strip(Split(line, SPDX_LICENSE_IDENTIFIER)[2]), "-->"), "*/"))

\* extract_license_identifiers_from_file reading every line of the file.
extract_license_identifiers_all_lines(file) ==
    IF ~file.readable THEN {}
    ELSE LET lines == Split(file.content, "\n")
         IN  {LicensePart(Strip(lines[i])) :
                i \in {j \in 1..Len(lines) : Contains(SPDX_LICENSE_IDENTIFIER, Strip(lines[j]))}}

\* extract_license_identifiers_from_file; an unreadable file gives set().
extract_license_identifiers_from_file(file) ==
    IF ~file.readable THEN {}
    ELSE LET first_lines == Take(Split(file.content, "\n"), ReuseScanLines)
         IN  {LicensePart(Strip(first_lines[i])) :
                i \in {j \in 1..Len(first_lines) :
                         Contains(SPDX_LICENSE_IDENTIFIER, Strip(first_lines[j]))}}

\* The paths of the directories above path p.
ParentsOf(p) == {SubSeq(p, 1, i - 1) : i \in {j \in 1..Len(p) : SubSeq(p, j, j) = "/"}}

\* Path.is_file() / Path.is_dir() / Path.exists() in environment e. An entry
\* of e.others exists and is neither (a FIFO, a socket, a device).
IsFile(e, p) == p \in DOMAIN e.fs
IsDir(e, p) == \E f \in (DOMAIN e.fs) \cup e.others : p \in ParentsOf(f)
Exists(e, p) == IsFile(e, p) \/ IsDir(e, p) \/ p \in e.others

\* The working directory of the run; Path.resolve() of a relative path.
Cwd == "/repo"
Resolve(p) == IF StartsWith(p, "/") THEN p ELSE Cwd \o "/" \o p

\* The entries of directory.rglob("*") for which is_file() holds, in the
\* order the file system lists them (e.listing).
RegularFilesUnder(e, directory) ==
    SelectSeq(e.listing, LAMBDA f : f \in DOMAIN e.fs /\ StartsWith(f, directory \o "/"))

\* file_path.relative_to(directory).
RelativeTo(file_path, directory) == SubSeq(file_path, Len(directory) + 2, Len(file_path))

\* get_git_tracked_files(): the resolved paths of `git ls-files`.
get_git_tracked_files(e) == {Resolve(f) : f \in e.git_ls_files}

\* The elements of a finite set as a list, each once: the order in which a
\* Python set or Path.iterdir() yields them.
RECURSIVE SetToSeq(_)
SetToSeq(S) ==
    IF S = {} THEN <<>>
    ELSE LET x == CHOOSE y \in S : TRUE IN <<x>> \o SetToSeq(S \ {x})

\* One issue text per element of list ids.
RECURSIVE IssueList(_, _, _)
IssueList(ids, before, after) ==
    IF ids = <<>> THEN <<>>
    ELSE <<before \o Head(ids) \o after>> \o IssueList(Tail(ids), before, after)

\* verify_reuse_compliance without its pass over the files of LICENSES.
verify_reuse_compliance_no_naming(tracked, e) ==
    LET used_licenses ==
            UNION {extract_license_identifiers_from_file(e.fs[f]) :
                     f \in {g \in DOMAIN e.fs : Resolve(g) \in tracked}}
        files == IF e.licenses = <<>> THEN {} ELSE e.licenses[1]
        missing == IssueList(SetToSeq({x \in used_licenses : (x \o ".txt") \notin files}),
                             "Missing license file: LICENSES/", ".txt")
    IN  [raised |-> FALSE, passed |-> missing = <<>>, issues |-> missing]

\* verify_reuse_compliance(git_tracked_files, git_root). e.licenses is <<>>
\* when LICENSES is no directory and <<names>> when it is one holding the
\* regular files names; e.licenses_is_file tells that LICENSES is a regular
\* file, which exists() accepts and iterdir() then refuses with
\* NotADirectoryError (raised).
verify_reuse_compliance(tracked, e) ==
    IF e.licenses_is_file THEN [raised |-> TRUE, passed |-> FALSE, issues |-> <<>>]
    ELSE IF e.licenses = <<>>
    THEN [raised |-> FALSE, passed |-> FALSE,
          issues |-> <<"LICENSES directory not found at repository root">>]
    ELSE LET used_licenses ==
                 UNION {extract_license_identifiers_from_file(e.fs[f]) :
                          f \in {g \in DOMAIN e.fs : Resolve(g) \in tracked}}
             missing ==
                 IssueList(SetToSeq({x \in used_licenses : (x \o ".txt") \notin e.licenses[1]}),
                           "Missing license file: LICENSES/", ".txt")
             naming ==
                 IssueList(SetToSeq({x \in e.licenses[1] : ~EndsWith(x, ".txt")}),
                           "License file with incorrect extension: LICENSES/",
                           " (should be .txt)")
         IN  [raised |-> FALSE, passed |-> Len(missing \o naming) = 0,
              issues |-> missing \o naming]

(***************************************************************************)
(* The walker: verify() and SPDXVerifier.verify_directory()                *)
(***************************************************************************)

\* One printed line: its kind, the file or path it is about, its message.
Line(kind, path, message) == [kind |-> kind, path |-> path, message |-> message]

\* The failure-reason counters after a failing verdict in verify_directory.
CountFailure(st, message) ==
    LET low == Lower(message)
        plus(field, cond) == IF cond THEN st[field] + 1 ELSE st[field]
    IN  IF Contains("Missing", message)
        THEN [st EXCEPT !.missing_license = plus("missing_license", Contains("license", low)),
                        !.missing_copyright = plus("missing_copyright", Contains("copyright", low))]
        ELSE IF Contains("Wrong", message)
        THEN [st EXCEPT !.wrong_license = plus("wrong_license", Contains("license", low)),
                        !.wrong_copyright = plus("wrong_copyright", Contains("copyright", low))]
        ELSE st

\* A filter that excludes nothing.
NotTrackedNever(file_path) == FALSE

\* Whether the tracked-file filter excludes the file.
NotTracked(file_path) ==
    ~git_tracked_files.none /\ Resolve(file_path) \notin git_tracked_files.files

NoFilter == [none |-> TRUE, files |-> {}]

\* verify() taking a failed listing for an empty set of tracked files.
VerifyStartEmptyOnFailure ==
    /\ pc = "start"
    /\ args.entry = "verify"
    /\ git_tracked_files' =
          IF args.pre_commit_mode
          THEN [none |-> FALSE,
                files |-> IF env.git_ok THEN get_git_tracked_files(env) ELSE {}]
          ELSE NoFilter
    /\ verifier' = NewVerifier(args, env)
    /\ stats' = InitialStats
    /\ all_passed' = TRUE
    /\ path_idx' = 1
    /\ pc' = "paths"
    /\ UNCHANGED <<cur_dir, dir_todo, dir_passed, dir_result, reuse, exit_code, output>>
    /\ UNCHANGED <<inVars, hdrVars>>

\* verify() up to its loop over the paths: the tracked files are listed
\* (a failing git leaves None) and the verifier is built.
VerifyStart ==
    /\ pc = "start"
    /\ args.entry = "verify"
    /\ git_tracked_files' =
          IF args.pre_commit_mode /\ env.git_ok
          THEN [none |-> FALSE, files |-> get_git_tracked_files(env)]
          ELSE NoFilter
    /\ verifier' = NewVerifier(args, env)
    /\ stats' = InitialStats
    /\ all_passed' = TRUE
    /\ path_idx' = 1
    /\ pc' = "paths"
    /\ UNCHANGED <<cur_dir, dir_todo, dir_passed, dir_result, reuse, exit_code, output>>
    /\ UNCHANGED <<inVars, hdrVars>>

\* A caller builds an SPDXVerifier and calls verify_directory itself.
DirectStart ==
    /\ pc = "start"
    /\ args.entry = "verify_directory"
    /\ git_tracked_files' = NoFilter
    /\ verifier' = NewVerifier(args, env)
    /\ stats' = InitialStats
    /\ cur_dir' = args.paths[1]
    /\ pc' = "dir_call"
    /\ UNCHANGED <<path_idx, dir_todo, dir_passed, dir_result, all_passed, reuse,
                   exit_code, output>>
    /\ UNCHANGED <<inVars, hdrVars>>

CurPath == args.paths[path_idx]
InLoop == pc = "paths" /\ path_idx <= Len(args.paths)

\* Single file, not in the tracked-file filter: `continue`.
FileUntracked ==
    /\ InLoop
    /\ IsFile(env, CurPath)
    /\ NotTracked(CurPath)
    /\ output' = Append(output, Line("SKIP_UNTRACKED", CurPath, "not Git tracked"))
    /\ path_idx' = path_idx + 1
    /\ UNCHANGED <<pc, verifier, git_tracked_files, cur_dir, dir_todo, dir_passed,
                   dir_result, stats, all_passed, reuse, exit_code>>
    /\ UNCHANGED <<inVars, hdrVars>>

\* Single file matching a skip pattern.
FileSkip ==
    /\ InLoop
    /\ IsFile(env, CurPath)
    /\ ~NotTracked(CurPath)
    /\ should_skip_file(verifier, CurPath)
    /\ stats' = [stats EXCEPT !.skipped = @ + 1]
    /\ output' = Append(output, Line("SKIP", CurPath, ""))
    /\ path_idx' = path_idx + 1
    /\ UNCHANGED <<pc, verifier, git_tracked_files, cur_dir, dir_todo, dir_passed,
                   dir_result, all_passed, reuse, exit_code>>
    /\ UNCHANGED <<inVars, hdrVars>>

\* Single file of no known language.
FileUnknown ==
    /\ InLoop
    /\ IsFile(env, CurPath)
    /\ ~NotTracked(CurPath)
    /\ ~should_skip_file(verifier, CurPath)
    /\ get_language_for_file(verifier, CurPath) = None
    /\ stats' = [stats EXCEPT !.skipped = @ + 1]
    /\ output' = Append(output, Line("SKIP_UNKNOWN", CurPath, "unknown file type"))
    /\ path_idx' = path_idx + 1
    /\ UNCHANGED <<pc, verifier, git_tracked_files, cur_dir, dir_todo, dir_passed,
                   dir_result, all_passed, reuse, exit_code>>
    /\ UNCHANGED <<inVars, hdrVars>>

\* Single file whose header is checked: no failure-reason counter is touched.
FileCheck ==
    /\ InLoop
    /\ IsFile(env, CurPath)
    /\ ~NotTracked(CurPath)
    /\ ~should_skip_file(verifier, CurPath)
    /\ get_language_for_file(verifier, CurPath) # None
    /\ LET r == check_license_header(verifier, CurPath, env.fs[CurPath])
       IN  /\ stats' = [stats EXCEPT !.checked = @ + 1,
                                     !.passed = IF r.passed THEN @ + 1 ELSE @]
           /\ all_passed' = (all_passed /\ r.passed)
           /\ output' = Append(output,
                 Line(IF r.passed THEN "PASS" ELSE "FAIL", CurPath, r.message))
    /\ path_idx' = path_idx + 1
    /\ UNCHANGED <<pc, verifier, git_tracked_files, cur_dir, dir_todo, dir_passed,
                   dir_result, reuse, exit_code>>
    /\ UNCHANGED <<inVars, hdrVars>>

\* verify starting the counters afresh for each directory it walks.
PathDirResetsStats ==
    /\ InLoop
    /\ ~IsFile(env, CurPath)
    /\ IsDir(env, CurPath)
    /\ cur_dir' = CurPath
    /\ pc' = "dir_call"
    /\ stats' = InitialStats
    /\ UNCHANGED <<verifier, git_tracked_files, path_idx, dir_todo, dir_passed,
                   dir_result, all_passed, reuse, exit_code, output>>
    /\ UNCHANGED <<inVars, hdrVars>>

\* A directory: verify calls verify_directory(path, git_tracked_files).
PathDir ==
    /\ InLoop
    /\ ~IsFile(env, CurPath)
    /\ IsDir(env, CurPath)
    /\ cur_dir' = CurPath
    /\ pc' = "dir_call"
    /\ UNCHANGED <<verifier, git_tracked_files, path_idx, dir_todo, dir_passed,
                   dir_result, stats, all_passed, reuse, exit_code, output>>
    /\ UNCHANGED <<inVars, hdrVars>>

\* The path reported, the run's result left as it was.
PathMissingNoFail ==
    /\ InLoop
    /\ ~IsFile(env, CurPath)
    /\ ~IsDir(env, CurPath)
    /\ output' = Append(output, Line("ERROR", CurPath, "does not exist"))
    /\ path_idx' = path_idx + 1
    /\ UNCHANGED <<pc, verifier, git_tracked_files, cur_dir, dir_todo, dir_passed,
                   dir_result, stats, all_passed, reuse, exit_code>>
    /\ UNCHANGED <<inVars, hdrVars>>

\* The path reported, and the loop over the paths left.
PathMissingHalts ==
    /\ InLoop
    /\ ~IsFile(env, CurPath)
    /\ ~IsDir(env, CurPath)
    /\ all_passed' = FALSE
    /\ output' = Append(output, Line("ERROR", CurPath, "does not exist"))
    /\ path_idx' = Len(args.paths) + 1
    /\ UNCHANGED <<pc, verifier, git_tracked_files, cur_dir, dir_todo, dir_passed,
                   dir_result, stats, reuse, exit_code>>
    /\ UNCHANGED <<inVars, hdrVars>>

\* Neither is_file() nor is_dir(): reported as not existing.
PathMissing ==
    /\ InLoop
    /\ ~IsFile(env, CurPath)
    /\ ~IsDir(env, CurPath)
    /\ all_passed' = FALSE
    /\ output' = Append(output, Line("ERROR", CurPath, "does not exist"))
    /\ path_idx' = path_idx + 1
    /\ UNCHANGED <<pc, verifier, git_tracked_files, cur_dir, dir_todo, dir_passed,
                   dir_result, stats, reuse, exit_code>>
    /\ UNCHANGED <<inVars, hdrVars>>

\* verify_directory on a directory that does not exist: False, nothing walked.
DirNotExists ==
    /\ pc = "dir_call"
    /\ ~Exists(env, cur_dir)
    /\ dir_result' = <<FALSE>>
    /\ output' = Append(output, Line("ERROR", cur_dir, "Directory does not exist"))
    /\ pc' = "dir_return"
    /\ UNCHANGED <<verifier, git_tracked_files, path_idx, cur_dir, dir_todo, dir_passed,
                   stats, all_passed, reuse, exit_code>>
    /\ UNCHANGED <<inVars, hdrVars>>

\* verify_directory starts its walk: all_passed = True, rglob("*").
DirEnter ==
    /\ pc = "dir_call"
    /\ Exists(env, cur_dir)
    /\ dir_passed' = TRUE
    /\ dir_todo' = RegularFilesUnder(env, cur_dir)
    /\ dir_result' = <<>>
    /\ pc' = "dir"
    /\ UNCHANGED <<verifier, git_tracked_files, path_idx, cur_dir, stats, all_passed,
                   reuse, exit_code, output>>
    /\ UNCHANGED <<inVars, hdrVars>>

\* The file rglob yields next.
DirFile == Head(dir_todo)

\* rglob yields the next file, which is outside the tracked-file filter.
DirUntracked ==
    /\ pc = "dir"
    /\ dir_todo # <<>>
    /\ NotTracked(DirFile)
    /\ dir_todo' = Tail(dir_todo)
    /\ output' = Append(output, Line("SKIP_UNTRACKED", DirFile, "not Git tracked"))
    /\ UNCHANGED <<pc, verifier, git_tracked_files, path_idx, cur_dir, dir_passed,
                   dir_result, stats, all_passed, reuse, exit_code>>
    /\ UNCHANGED <<inVars, hdrVars>>

\* The skip test made before the tracked-file filter.
DirSkipBeforeFilter ==
    /\ pc = "dir"
    /\ dir_todo # <<>>
    /\ should_skip_file(verifier, RelativeTo(DirFile, cur_dir))
    /\ stats' = [stats EXCEPT !.skipped = @ + 1]
    /\ dir_todo' = Tail(dir_todo)
    /\ output' = Append(output, Line("SKIP", DirFile, ""))
    /\ UNCHANGED <<pc, verifier, git_tracked_files, path_idx, cur_dir, dir_passed,
                   dir_result, all_passed, reuse, exit_code>>
    /\ UNCHANGED <<inVars, hdrVars>>

\* rglob yields the next file, whose relative path or name matches a skip pattern.
DirSkip ==
    /\ pc = "dir"
    /\ dir_todo # <<>>
    /\ ~NotTracked(DirFile)
    /\ should_skip_file(verifier, RelativeTo(DirFile, cur_dir))
    /\ stats' = [stats EXCEPT !.skipped = @ + 1]
    /\ dir_todo' = Tail(dir_todo)
    /\ output' = Append(output, Line("SKIP", DirFile, ""))
    /\ UNCHANGED <<pc, verifier, git_tracked_files, path_idx, cur_dir, dir_passed,
                   dir_result, all_passed, reuse, exit_code>>
    /\ UNCHANGED <<inVars, hdrVars>>

\* rglob yields the next file, of no known language.
DirUnknown ==
    /\ pc = "dir"
    /\ dir_todo # <<>>
    /\ ~NotTracked(DirFile)
    /\ ~should_skip_file(verifier, RelativeTo(DirFile, cur_dir))
    /\ get_language_for_file(verifier, DirFile) = None
    /\ stats' = [stats EXCEPT !.skipped = @ + 1]
    /\ dir_todo' = Tail(dir_todo)
    /\ output' = Append(output, Line("SKIP_UNKNOWN", DirFile, "unknown file type"))
    /\ UNCHANGED <<pc, verifier, git_tracked_files, path_idx, cur_dir, dir_passed,
                   dir_result, all_passed, reuse, exit_code>>
    /\ UNCHANGED <<inVars, hdrVars>>

\* A walk that stops at the first failing verdict.
DirCheckFailFast ==
    /\ pc = "dir"
    /\ dir_todo # <<>>
    /\ ~NotTracked(DirFile)
    /\ ~should_skip_file(verifier, RelativeTo(DirFile, cur_dir))
    /\ get_language_for_file(verifier, DirFile) # None
    /\ LET r == check_license_header(verifier, DirFile, env.fs[DirFile])
           counted == [stats EXCEPT !.checked = @ + 1]
       IN  /\ stats' = IF r.passed
                       THEN [counted EXCEPT !.passed = @ + 1]
                       ELSE CountFailure(counted, r.message)
           /\ dir_passed' = (dir_passed /\ r.passed)
           /\ output' = Append(output,
                 Line(IF r.passed THEN "PASS" ELSE "FAIL", DirFile, r.message))
           /\ dir_todo' = IF r.passed THEN Tail(dir_todo) ELSE <<>>
    /\ UNCHANGED <<pc, verifier, git_tracked_files, path_idx, cur_dir, dir_result,
                   all_passed, reuse, exit_code>>
    /\ UNCHANGED <<inVars, hdrVars>>

\* verify_directory without its language test before the header check.
DirCheckWithoutLanguage ==
    /\ pc = "dir"
    /\ dir_todo # <<>>
    /\ ~NotTracked(DirFile)
    /\ ~should_skip_file(verifier, RelativeTo(DirFile, cur_dir))
    /\ LET r == check_license_header(verifier, DirFile, env.fs[DirFile])
           counted == [stats EXCEPT !.checked = @ + 1]
       IN  /\ stats' = IF r.passed
                       THEN [counted EXCEPT !.passed = @ + 1]
                       ELSE CountFailure(counted, r.message)
           /\ dir_passed' = (dir_passed /\ r.passed)
           /\ output' = Append(output,
                 Line(IF r.passed THEN "PASS" ELSE "FAIL", DirFile, r.message))
    /\ dir_todo' = Tail(dir_todo)
    /\ UNCHANGED <<pc, verifier, git_tracked_files, path_idx, cur_dir, dir_result,
                   all_passed, reuse, exit_code>>
    /\ UNCHANGED <<inVars, hdrVars>>

\* rglob yields the next file, whose header is checked and counted.
DirCheck ==
    /\ pc = "dir"
    /\ dir_todo # <<>>
    /\ ~NotTracked(DirFile)
    /\ ~should_skip_file(verifier, RelativeTo(DirFile, cur_dir))
    /\ get_language_for_file(verifier, DirFile) # None
    /\ LET r == check_license_header(verifier, DirFile, env.fs[DirFile])
           counted == [stats EXCEPT !.checked = @ + 1]
       IN  /\ stats' = IF r.passed
                       THEN [counted EXCEPT !.passed = @ + 1]
                       ELSE CountFailure(counted, r.message)
           /\ dir_passed' = (dir_passed /\ r.passed)
           /\ output' = Append(output,
                 Line(IF r.passed THEN "PASS" ELSE "FAIL", DirFile, r.message))
    /\ dir_todo' = Tail(dir_todo)
    /\ UNCHANGED <<pc, verifier, git_tracked_files, path_idx, cur_dir, dir_result,
                   all_passed, reuse, exit_code>>
    /\ UNCHANGED <<inVars, hdrVars>>

\* rglob is exhausted: verify_directory returns all_passed.
DirExhausted ==
    /\ pc = "dir"
    /\ dir_todo = <<>>
    /\ dir_result' = <<dir_passed>>
    /\ pc' = "dir_return"
    /\ UNCHANGED <<verifier, git_tracked_files, path_idx, cur_dir, dir_todo, dir_passed,
                   stats, all_passed, reuse, exit_code, output>>
    /\ UNCHANGED <<inVars, hdrVars>>

\* Back in verify: `if not verifier.verify_directory(...): all_passed = False`.
DirReturnToVerify ==
    /\ pc = "dir_return"
    /\ args.entry = "verify"
    /\ all_passed' = (all_passed /\ dir_result[1])
    /\ path_idx' = path_idx + 1
    /\ pc' = "paths"
    /\ UNCHANGED <<verifier, git_tracked_files, cur_dir, dir_todo, dir_passed, dir_result,
                   stats, reuse, exit_code, output>>
    /\ UNCHANGED <<inVars, hdrVars>>

\* Back in the caller of a direct verify_directory call.
DirReturnToCaller ==
    /\ pc = "dir_return"
    /\ args.entry = "verify_directory"
    /\ pc' = "done"
    /\ UNCHANGED <<verifier, git_tracked_files, path_idx, cur_dir, dir_todo, dir_passed,
                   dir_result, stats, all_passed, reuse, exit_code, output>>
    /\ UNCHANGED <<inVars, hdrVars>>

\* Whether verify goes on to the REUSE compliance check: requested, in
\* pre-commit mode, with a non-empty tracked set, and a git root found.
ReusePerformed ==
    /\ args.reuse_compliance
    /\ args.pre_commit_mode
    /\ ~git_tracked_files.none /\ git_tracked_files.files # {}
    /\ env.git_root

\* The compliance check with its report left out of the result of the run.
ReuseCheckIgnoresReport ==
    /\ pc = "paths"
    /\ path_idx > Len(args.paths)
    /\ ReusePerformed
    /\ LET r == verify_reuse_compliance(git_tracked_files.files, env)
       IN  /\ reuse' = <<r>>
           /\ pc' = IF r.raised THEN "done" ELSE "summary"
           /\ exit_code' = IF r.raised THEN <<1>> ELSE exit_code
    /\ UNCHANGED <<verifier, git_tracked_files, path_idx, cur_dir, dir_todo, dir_passed,
                   dir_result, stats, all_passed, output>>
    /\ UNCHANGED <<inVars, hdrVars>>

\* After the loop: the compliance check, when it is performed. An exception
\* of the check is not caught: verify ends there with status 1.
ReuseCheck ==
    /\ pc = "paths"
    /\ path_idx > Len(args.paths)
    /\ ReusePerformed
    /\ LET r == verify_reuse_compliance(git_tracked_files.files, env)
       IN  /\ reuse' = <<r>>
           /\ all_passed' = (all_passed /\ (r.raised \/ r.passed))
           /\ pc' = IF r.raised THEN "done" ELSE "summary"
           /\ exit_code' = IF r.raised THEN <<1>> ELSE exit_code
    /\ UNCHANGED <<verifier, git_tracked_files, path_idx, cur_dir, dir_todo, dir_passed,
                   dir_result, stats, output>>
    /\ UNCHANGED <<inVars, hdrVars>>

\* After the loop: no compliance check.
ReuseNotRun ==
    /\ pc = "paths"
    /\ path_idx > Len(args.paths)
    /\ ~ReusePerformed
    /\ pc' = "summary"
    /\ UNCHANGED <<verifier, git_tracked_files, path_idx, cur_dir, dir_todo, dir_passed,
                   dir_result, stats, all_passed, reuse, exit_code, output>>
    /\ UNCHANGED <<inVars, hdrVars>>

\* is_github_actions: GITHUB_ACTIONS is "true".
is_github_actions(e) == e.github_actions

\* Python str of a non-negative int and str(bool).lower().
Digits == <<"0", "1", "2", "3", "4", "5", "6", "7", "8", "9">>
RECURSIVE Str(_)
Str(n) == IF n < 10 THEN Digits[n + 1] ELSE Str(n \div 10) \o Digits[(n % 10) + 1]
BoolLower(b) == IF b THEN "true" ELSE "false"

\* set_github_output: the line appended to the file GITHUB_OUTPUT names, or
\* nothing: outside GitHub Actions, with GITHUB_OUTPUT unset or empty, or
\* when opening or writing the file raises IOError (the names in fails).
set_github_output(e, name, value) ==
    IF is_github_actions(e) /\ e.github_output.set /\ name \notin e.github_output.fails
    THEN << name \o "=" \o value \o "\n" >>
    ELSE <<>>

\* The four outputs verify sets after the summary.
GithubOutputs(e, passed, st) ==
    IF ~is_github_actions(e) THEN <<>>
    ELSE set_github_output(e, "passed", BoolLower(passed))
         \o set_github_output(e, "files_checked", Str(st.checked))
         \o set_github_output(e, "files_passed", Str(st.passed))
         \o set_github_output(e, "files_failed", Str(st.checked - st.passed))

\* verify leaving with sys.exit(1) before it sets the outputs.
ExitBeforeOutputs ==
    /\ pc = "summary"
    /\ h_out' = IF all_passed THEN h_out \o GithubOutputs(env, all_passed, stats) ELSE h_out
    /\ exit_code' = <<IF all_passed THEN 0 ELSE 1>>
    /\ pc' = "done"
    /\ UNCHANGED <<verifier, git_tracked_files, path_idx, cur_dir, dir_todo, dir_passed,
                   dir_result, stats, all_passed, reuse, output>>
    /\ UNCHANGED <<inVars, h_in>>

\* The summary is printed, the outputs are set (h_out holds the lines appended
\* to the output file) and verify ends: sys.exit(1) unless all passed.
Exit ==
    /\ pc = "summary"
    /\ h_out' = h_out \o GithubOutputs(env, all_passed, stats)
    /\ exit_code' = <<IF all_passed THEN 0 ELSE 1>>
    /\ pc' = "done"
    /\ UNCHANGED <<verifier, git_tracked_files, path_idx, cur_dir, dir_todo, dir_passed,
                   dir_result, stats, all_passed, reuse, output>>
    /\ UNCHANGED <<inVars, h_in>>

(***************************************************************************)
(* Initial states                                                          *)
(***************************************************************************)

\* A file with both declarations behind comment prefix c, then code.
HeaderText(c, license_id, holder) ==
    c \o " SPDX-License-Identifier: " \o license_id \o "\n"
      \o c \o " SPDX-FileCopyrightText: 2025 " \o holder \o "\n\ndef hello(): pass"

File(content, readable) == [content |-> content, readable |-> readable]

\* The tree under the working directory: two source files, a file under
\* node_modules, a file of no known language, and a FIFO.
FileA == "proj/a.py"
FileB == "proj/lib/b.js"
FileM == "proj/node_modules/m.js"
FileN == "proj/NOTES"
Fifo == "proj/pipe"

ContentsA == {
    File(HeaderText("#", "Apache-2.0", "The Linux Foundation"), TRUE),
    File(HeaderText("#", "MIT", "The Linux Foundation"), TRUE),
    File("# SPDX-License-Identifier: Apache-2.0\ndef hello(): pass", TRUE),
    File("# SPDX-FileCopyrightText: 2025 The Linux Foundation\ndef hello(): pass", TRUE),
    File("def hello(): pass", TRUE),
    File(HeaderText("#", "Apache-2.0", "The Linux Foundation"), FALSE) }

ContentsB == {
    File(HeaderText("//", "Apache-2.0", "The Linux Foundation"), TRUE),
    File(HeaderText("//", "MIT", "Other Corp"), TRUE) }

FileSystems ==
    {[f \in {FileA, FileB, FileM, FileN} |->
        CASE f = FileA -> a
          [] f = FileB -> b
          [] f = FileM -> File("module.exports = {}", TRUE)
          [] f = FileN -> File(HeaderText("#", "Apache-2.0", "The Linux Foundation"), TRUE)]
     : a \in ContentsA, b \in ContentsB}

\* git and the LICENSES directory, with the two modes that read them. In
\* the walks LICENSES is absent or a directory.
GitSetups == {
    [pre_commit_mode |-> FALSE, reuse_compliance |-> FALSE, git_ok |-> TRUE,
     git_ls_files |-> {FileA, FileB}, git_root |-> TRUE, licenses |-> <<>>],
    [pre_commit_mode |-> FALSE, reuse_compliance |-> TRUE, git_ok |-> TRUE,
     git_ls_files |-> {FileA, FileB}, git_root |-> TRUE, licenses |-> <<>>],
    [pre_commit_mode |-> TRUE, reuse_compliance |-> TRUE, git_ok |-> FALSE,
     git_ls_files |-> {}, git_root |-> FALSE, licenses |-> <<>>],
    [pre_commit_mode |-> TRUE, reuse_compliance |-> FALSE, git_ok |-> TRUE,
     git_ls_files |-> {FileA, FileM, FileN}, git_root |-> TRUE, licenses |-> <<>>],
    [pre_commit_mode |-> TRUE, reuse_compliance |-> TRUE, git_ok |-> TRUE,
     git_ls_files |-> {FileA}, git_root |-> TRUE, licenses |-> <<{"Apache-2.0.txt"}>>],
    [pre_commit_mode |-> TRUE, reuse_compliance |-> TRUE, git_ok |-> TRUE,
     git_ls_files |-> {}, git_root |-> TRUE, licenses |-> <<>>],
    [pre_commit_mode |-> TRUE, reuse_compliance |-> TRUE, git_ok |-> TRUE,
     git_ls_files |-> {FileA, FileB}, git_root |-> TRUE, licenses |-> <<>>],
    [pre_commit_mode |-> TRUE, reuse_compliance |-> TRUE, git_ok |-> TRUE,
     git_ls_files |-> {FileA, FileB, FileN}, git_root |-> TRUE,
     licenses |-> <<{"Apache-2.0.txt", "MIT.txt", "NOTICE"}>>],
    [pre_commit_mode |-> TRUE, reuse_compliance |-> TRUE, git_ok |-> TRUE,
     git_ls_files |-> {FileB}, git_root |-> FALSE, licenses |-> <<{"Apache-2.0.txt"}>>] }

\* The skip-pattern sources: the caller's list, .gitignore, and whether
\* pathspec can be imported. None of these patterns is a negation, so the
\* order of the pattern list does not bear on what the walks skip.
SkipSetups == {
    [skip |-> <<>>, gitignore |-> <<>>, has_pathspec |-> TRUE],
    [skip |-> <<>>, gitignore |-> <<>>, has_pathspec |-> FALSE],
    [skip |-> <<"lib">>, gitignore |-> <<"*.tmp", "NOTES">>, has_pathspec |-> TRUE] }

\* The input path lists of verify(): files, directories, a path that does
\* not exist, a FIFO, and a file reached twice.
PathLists == {
    <<"proj">>,
    <<FileA>>,
    <<FileA, "proj/lib">>,
    <<"gone.py", "proj">>,
    <<FileB, "gone.py", FileA>>,
    <<FileN, FileM>>,
    <<FileN>>,
    <<Fifo, FileA>>,
    <<"proj", FileA>> }

\* The directories a caller hands to verify_directory itself.
DirectDirs == {"proj", "proj/lib", "gone"}

\* The expected license and copyright holder of the walks; the last holder
\* has the word "License" in its name.
WalkExpected ==
    { <<DEFAULT_LICENSE, DEFAULT_COPYRIGHT>>, <<"MIT", "Other Corp">>,
      <<"Apache-2.0", "Open License Group">> }

\* The orders in which the file system lists the tree.
Listings == {<<FileA, FileB, FileM, FileN>>, <<FileN, FileM, FileB, FileA>>}

MakeEnv(fsys, g, k, o) ==
    [fs |-> fsys, others |-> {Fifo}, listing |-> o, gitignore |-> k.gitignore,
     has_pathspec |-> k.has_pathspec, git_ok |-> g.git_ok,
     git_ls_files |-> g.git_ls_files, git_root |-> g.git_root, licenses |-> g.licenses,
     licenses_is_file |-> FALSE, config_file |-> <<>>, hash_order |-> "forward",
     github_actions |-> FALSE, github_output |-> [set |-> FALSE, fails |-> {}]]

MakeArgs(entry, ps, x, g, k) ==
    [entry |-> entry, paths |-> ps, license |-> x[1], copyright_holder |-> x[2],
     skip |-> k.skip, pre_commit_mode |-> g.pre_commit_mode,
     reuse_compliance |-> g.reuse_compliance,
     disable_default_file_type |-> FALSE, enable_default_file_type |-> FALSE,
     default_file_type_override |-> None]

\* No check_license_header call of its own is part of a walk.
HeaderIdle ==
    /\ h_in = [file_path |-> "", file |-> File("", TRUE), file2 |-> File("", TRUE),
               pair |-> ""]
    /\ h_out = <<>>

\* The state of a run before its first step.
RunInit ==
    /\ pc = "start"
    /\ verifier = MakeVerifier("", "", <<>>)
    /\ git_tracked_files = NoFilter
    /\ path_idx = 1
    /\ cur_dir = ""
    /\ dir_todo = <<>>
    /\ dir_passed = TRUE
    /\ dir_result = <<>>
    /\ stats = InitialStats
    /\ all_passed = TRUE
    /\ reuse = <<>>
    /\ exit_code = <<>>
    /\ output = <<>>

\* The default skip sources, expected values and listing order, and the
\* plain git setup.
PlainSkip == CHOOSE k \in SkipSetups : k.skip = <<>> /\ k.has_pathspec
PlainGit == CHOOSE g \in GitSetups : ~g.pre_commit_mode /\ ~g.reuse_compliance
PlainExpected == <<DEFAULT_LICENSE, DEFAULT_COPYRIGHT>>
PlainListing == <<FileA, FileB, FileM, FileN>>

\* The file systems tried under every git setup and every skip setup.
SampleFileSystems ==
    {fsys \in FileSystems :
        /\ fsys[FileA].readable
        /\ Contains("FileCopyrightText", fsys[FileA].content)
        /\ Contains("License-Identifier", fsys[FileA].content)
        /\ Contains("MIT", fsys[FileB].content)}

\* The runs: every file system, path list and listing order with the plain
\* setups; the sample file systems under every git setup, and under every
\* skip setup and expected pair; and the direct calls of verify_directory.
Runs ==
    {<<"verify", ps, fsys, PlainGit, PlainSkip, PlainExpected, o>> :
        ps \in PathLists, fsys \in FileSystems, o \in Listings}
    \cup {<<"verify", ps, fsys, g, PlainSkip, PlainExpected, PlainListing>> :
        ps \in PathLists, fsys \in SampleFileSystems, g \in GitSetups}
    \cup {<<"verify", ps, fsys, PlainGit, k, x, PlainListing>> :
        ps \in PathLists, fsys \in SampleFileSystems, k \in SkipSetups, x \in WalkExpected}
    \cup {<<"verify_directory", <<d>>, fsys, PlainGit, k, PlainExpected, PlainListing>> :
        d \in DirectDirs, fsys \in FileSystems, k \in SkipSetups}

\* The runs under GitHub Actions: GITHUB_ACTIONS "true" or not, GITHUB_OUTPUT
\* set or not, and the writes that fail.
CISetups ==
    { [github_actions |-> a, github_output |-> [set |-> o, fails |-> f]] :
        a \in BOOLEAN, o \in BOOLEAN,
        f \in { {}, {"files_passed"}, {"passed", "files_checked", "files_passed", "files_failed"} } }
CIRuns ==
    {<<"verify", ps, fsys, g, PlainSkip, PlainExpected, PlainListing>> :
        ps \in {<<"proj">>, <<FileA>>, <<"gone.py", "proj">>},
        fsys \in SampleFileSystems,
        g \in {PlainGit, CHOOSE g \in GitSetups : g.git_ls_files = {FileA, FileB}
                                                  /\ g.pre_commit_mode /\ g.reuse_compliance}}

Init ==
    /\ \/ \E r \in Runs :
             /\ env = MakeEnv(r[3], r[4], r[5], r[7])
             /\ args = MakeArgs(r[1], r[2], r[6], r[4], r[5])
       \/ \E r \in CIRuns, ci \in CISetups :
             /\ env = [MakeEnv(r[3], r[4], r[5], r[7])
                          EXCEPT !.github_actions = ci.github_actions,
                                 !.github_output = ci.github_output]
             /\ args = MakeArgs(r[1], r[2], r[6], r[4], r[5])
    /\ RunInit
    /\ HeaderIdle

(***************************************************************************)
(* check_license_header called on pairs of files                           *)
(***************************************************************************)

\* "\n".join(lines).
RECURSIVE JoinLines(_)
JoinLines(lines) ==
    IF Len(lines) = 0 THEN ""
    ELSE IF Len(lines) = 1 THEN lines[1]
    ELSE LET h == Len(lines) \div 2
         IN  JoinLines(SubSeq(lines, 1, h)) \o "\n" \o JoinLines(SubSeq(lines, h + 1, Len(lines)))

\* The numbers of filler lines before the first header line: none, and
\* enough to put the header lines around line ScanLines.
LeadCounts == {0} \cup ((ScanLines - 2)..MaxLead)

\* A file and the same text with long filler lines.
LongPairs ==
    {[file_path |-> FileA, pair |-> "long",
      file |-> File(BuildContent(FillerLine, n, a, g, b), TRUE),
      file2 |-> File(BuildContent(LongLine, n, a, g, b), TRUE)] :
        n \in LeadCounts, a \in HeaderLines, g \in {0, 1}, b \in HeaderLines}

\* A file of at least ScanLines lines and a file with the same first
\* ScanLines lines followed by another line.
TailPairs ==
    {[file_path |-> FileA, pair |-> "tail",
      file |-> File(BuildContent(FillerLine, n, a, 1, b), TRUE),
      file2 |-> File(JoinLines(Take(Split(BuildContent(FillerLine, n, a, 1, b), "\n"),
                                    ScanLines)) \o "\n" \o t, TRUE)] :
        n \in (ScanLines - 2)..MaxLead, a \in HeaderLines, b \in TailLines, t \in TailLines}

\* An empty file, files that cannot be read, a file of no known language.
OddPairs ==
    {[file_path |-> FileA, pair |-> "same", file |-> File("", TRUE), file2 |-> File("", TRUE)],
     [file_path |-> FileB, pair |-> "same",
      file |-> File(HeaderText("//", "Apache-2.0", "The Linux Foundation"), FALSE),
      file2 |-> File("", FALSE)],
     [file_path |-> FileN, pair |-> "same",
      file |-> File("notes", TRUE),
      file2 |-> File(HeaderText("#", "MIT", "Other Corp"), FALSE)]}

\* Files of no known language: with a header, without one, unreadable.
UnknownPairs ==
    {[file_path |-> p, pair |-> "same", file |-> File(c, TRUE), file2 |-> File(c, r)] :
        p \in {FileN, "LICENSE", "proj/data.bin"},
        c \in {"notes", "", HeaderText("#", "MIT", "Other Corp"),
               HeaderText("#", "Apache-2.0", "The Linux Foundation")},
        r \in BOOLEAN}

HeaderInit ==
    /\ \E x \in ExpectedPairs :
          /\ verifier = MakeVerifier(x[1], x[2], <<>>)
          /\ args = MakeArgs("check_license_header", <<>>, x, PlainGit, PlainSkip)
          /\ h_in \in LongPairs \cup TailPairs \cup OddPairs \cup UnknownPairs
    /\ env = MakeEnv(<<>>, PlainGit, PlainSkip, <<>>)
    /\ pc = "start"
    /\ git_tracked_files = NoFilter
    /\ path_idx = 1
    /\ cur_dir = ""
    /\ dir_todo = <<>>
    /\ dir_passed = TRUE
    /\ dir_result = <<>>
    /\ stats = InitialStats
    /\ all_passed = TRUE
    /\ reuse = <<>>
    /\ exit_code = <<>>
    /\ output = <<>>
    /\ h_out = <<>>

\* The verifier checks the header of both files of the pair.
CheckHeader ==
    /\ args.entry = "check_license_header"
    /\ h_out = <<>>
    /\ h_out' = <<check_license_header(verifier, h_in.file_path, h_in.file),
                  check_license_header(verifier, h_in.file_path, h_in.file2)>>
    /\ UNCHANGED <<h_in, inVars, runVars>>

NextHeader == CheckHeader

SpecHeader == HeaderInit /\ [][NextHeader]_vars

Next ==
    \/ VerifyStart
    \/ DirectStart
    \/ FileUntracked
    \/ FileSkip
    \/ FileUnknown
    \/ FileCheck
    \/ PathDir
    \/ PathMissing
    \/ DirNotExists
    \/ DirEnter
    \/ DirUntracked
    \/ DirSkip
    \/ DirUnknown
    \/ DirCheck
    \/ DirExhausted
    \/ DirReturnToVerify
    \/ DirReturnToCaller
    \/ ReuseCheck
    \/ ReuseNotRun
    \/ Exit

Spec == Init /\ [][Next]_vars

\* Runs of verify and verify_directory together with the calls of
\* check_license_header on pairs of files.
InitAll == Init \/ HeaderInit
NextAll == Next \/ NextHeader
SpecAll == InitAll /\ [][NextAll]_vars

(***************************************************************************)
(* get_language_for_file called on one path (SpecLang)                     *)
(***************************************************************************)

\* A "languages" table of a spdx-config.yaml: extensions in mixed case, exact
\* file names, a name that is both a file name of one language and an
\* extension string of another, and two extension strings one name ends with.
LoadedLanguages == <<
    [name |-> "python",     extensions |-> <<".py", ".PYW">>, filenames |-> <<>>],
    [name |-> "text",       extensions |-> <<".txt">>, filenames |-> <<>>],
    [name |-> "cmake",      extensions |-> <<".cmake">>, filenames |-> <<"CMakeLists.txt">>],
    [name |-> "docker",     extensions |-> <<>>, filenames |-> <<"Dockerfile", "Containerfile">>],
    [name |-> "dockerfile", extensions |-> <<"Dockerfile", ".dockerfile">>, filenames |-> <<>>],
    [name |-> "make",       extensions |-> <<".mk", "FILE">>, filenames |-> <<"Makefile">>],
    [name |-> "c",          extensions |-> <<".c", ".cpp", ".h">>, filenames |-> <<>>] >>

\* The same table with one more language that claims an extension of "c"
\* (in another case) and a file name of "make".
ClashingLanguages ==
    LoadedLanguages
    \o << [name |-> "cpp", extensions |-> <<".CPP", ".hpp">>, filenames |-> <<"makefile">>] >>

\* A spdx-config.yaml with the given "languages" and "default_file_type"
\* keys (<<>> for a key the file lacks) and no "default_skip_patterns".
ConfigFile(languages, default_file_type) ==
    << [languages |-> languages, default_skip_patterns |-> <<>>,
        default_file_type |-> default_file_type] >>

\* The "default_file_type" keys tried: absent, enabled or not with a
\* configured language, enabled with an unknown language, enabled with none.
DefaultFileTypes ==
    { <<>>,
      << [enabled |-> TRUE, language |-> "text"] >>,
      << [enabled |-> FALSE, language |-> "text"] >>,
      << [enabled |-> TRUE, language |-> "fortran"] >>,
      << [enabled |-> TRUE, language |-> None] >> }

\* The caller's options disable_default_file_type, enable_default_file_type
\* and default_file_type_override.
LangFlags ==
    { [disable |-> d, enable |-> e, override |-> o] :
        d \in BOOLEAN, e \in BOOLEAN, o \in {None, "", "python", "fortran"} }
NoLangFlags == [disable |-> FALSE, enable |-> FALSE, override |-> None]

\* The paths asked about.
LangPaths ==
    { "src/Main.PY", "a/b.pyw", "CMakeLists.txt", "Dockerfile", "containerfile",
      "img/base.Dockerfile", "MyDockerfile", "profile", "GNUMakefile", "Makefile",
      "x.cpp", ".mk", "NOTES", "lib/README.md", "test.js" }
UnresolvedPaths == {"NOTES", "lib/README.md", "src/Main.PY"}

\* The direct calls: every path under no file, each language table, and the
\* unresolved paths under every default_file_type key and option.
LangRuns ==
    {<<c, NoLangFlags, p>> :
        c \in {<<>>, ConfigFile(<<LoadedLanguages>>, <<>>),
               ConfigFile(<<ClashingLanguages>>, <<>>)},
        p \in LangPaths}
    \cup {<<ConfigFile(<<LoadedLanguages>>, t), f, p>> :
        t \in DefaultFileTypes, f \in LangFlags, p \in UnresolvedPaths}

LangInit ==
    /\ \E r \in LangRuns :
          /\ env = [MakeEnv(<<>>, PlainGit, PlainSkip, <<>>) EXCEPT !.config_file = r[1]]
          /\ args = [MakeArgs("get_language_for_file", <<>>, PlainExpected, PlainGit, PlainSkip)
                        EXCEPT !.disable_default_file_type = r[2].disable,
                               !.enable_default_file_type = r[2].enable,
                               !.default_file_type_override = r[2].override]
          /\ h_in = [file_path |-> r[3]]
    /\ RunInit
    /\ h_out = <<>>

\* SPDXVerifier(...): the registry is built from the loaded configuration.
LangConstruct ==
    /\ args.entry = "get_language_for_file"
    /\ pc = "start"
    /\ verifier' = NewVerifier(args, env)
    /\ pc' = "built"
    /\ UNCHANGED <<inVars, hdrVars, git_tracked_files, path_idx, cur_dir, dir_todo,
                   dir_passed, dir_result, stats, all_passed, reuse, exit_code, output>>

\* verifier.get_language_for_file(Path(file_path)).
LangResolve ==
    /\ args.entry = "get_language_for_file"
    /\ pc = "built"
    /\ h_out' = <<get_language_for_file(verifier, h_in.file_path)>>
    /\ pc' = "done"
    /\ UNCHANGED <<inVars, h_in, verifier, git_tracked_files, path_idx, cur_dir, dir_todo,
                   dir_passed, dir_result, stats, all_passed, reuse, exit_code, output>>

NextLang == LangConstruct \/ LangResolve

SpecLang == LangInit /\ [][NextLang]_vars

(***************************************************************************)
(* should_skip_file called as the walker calls it (SpecSkip)               *)
(***************************************************************************)

\* The lines load_gitignore_patterns keeps, and the caller's patterns.
GitignoreLists ==
    { <<>>, <<"*.log", "!keep.log">>, <<"custom_ignore/", "*.temp">>, <<"!*.pyc", "NOTES">> }
CallerLists == { <<>>, <<"lib">>, <<"*.user", "*.temp", "*.user">> }

\* The files the walker asks about: via "directory" the file was listed
\* under the walked directory, via "direct" it is an input path of verify,
\* written as the caller gave it.
SkipCalls ==
    { [via |-> "directory", directory |-> d, file_path |-> d \o "/" \o r] :
        d \in {"proj", "/repo"},
        r \in {"node_modules/m.js", "keep.log", "lib/b.js", "build/gen.py", "a.py"} }
    \cup { [via |-> "direct", directory |-> "", file_path |-> f] :
        f \in {"keep.log", "logs/keep.log", "proj/node_modules/m.js", "build/gen.py",
               "/repo/build/gen.py", "/repo/src/a.py", "lib/x.temp", "NOTES", "x.pyc"} }

SkipInit ==
    /\ \E k \in GitignoreLists, c \in CallerLists, ps \in BOOLEAN, o \in HashOrders :
          /\ env = [MakeEnv(<<>>, PlainGit, PlainSkip, <<>>)
                       EXCEPT !.gitignore = k, !.has_pathspec = ps, !.hash_order = o]
          /\ args = [MakeArgs("should_skip_file", <<>>, PlainExpected, PlainGit, PlainSkip)
                       EXCEPT !.skip = c]
    /\ h_in \in SkipCalls
    /\ RunInit
    /\ h_out = <<>>

\* SPDXVerifier(...): the pattern list is built and compiled.
SkipConstruct ==
    /\ args.entry = "should_skip_file"
    /\ pc = "start"
    /\ verifier' = NewVerifier(args, env)
    /\ pc' = "built"
    /\ UNCHANGED <<inVars, hdrVars, git_tracked_files, path_idx, cur_dir, dir_todo,
                   dir_passed, dir_result, stats, all_passed, reuse, exit_code, output>>

\* The path the walker hands to should_skip_file: verify_directory passes
\* file_path.relative_to(directory), the file branch of verify passes the
\* input path itself.
SkipArgument ==
    IF h_in.via = "directory" THEN RelativeTo(h_in.file_path, h_in.directory)
    ELSE h_in.file_path

\* should_skip_file with a statement it does not have: a skipped file is
\* counted by the query itself.
SkipTestCounting ==
    /\ args.entry = "should_skip_file"
    /\ pc \in {"built", "tested"}
    /\ h_out' = Append(h_out, should_skip_file(verifier, SkipArgument))
    /\ pc' = IF pc = "built" THEN "tested" ELSE "done"
    /\ stats' = IF should_skip_file(verifier, SkipArgument)
                THEN [stats EXCEPT !.skipped = @ + 1] ELSE stats
    /\ UNCHANGED <<inVars, h_in, verifier, git_tracked_files, path_idx, cur_dir, dir_todo,
                   dir_passed, dir_result, all_passed, reuse, exit_code, output>>

\* verifier.should_skip_file(...), called a first and a second time.
SkipTest ==
    /\ args.entry = "should_skip_file"
    /\ pc \in {"built", "tested"}
    /\ h_out' = Append(h_out, should_skip_file(verifier, SkipArgument))
    /\ pc' = IF pc = "built" THEN "tested" ELSE "done"
    /\ UNCHANGED <<inVars, h_in, verifier, git_tracked_files, path_idx, cur_dir, dir_todo,
                   dir_passed, dir_result, stats, all_passed, reuse, exit_code, output>>

NextSkip == SkipConstruct \/ SkipTest

SpecSkip == SkipInit /\ [][NextSkip]_vars

(***************************************************************************)
(* The REUSE functions called directly (SpecReuse)                         *)
(***************************************************************************)

\* Lines that declare a license, as files of several comment styles hold
\* them: plain, closed by "*/" or "-->", compound expressions, a line with
\* the marker twice, a closing token before the end, and no identifier.
LicenseLines == {
    "# SPDX-License-Identifier: Apache-2.0",
    "  /* SPDX-License-Identifier: MIT */  ",
    "<!-- SPDX-License-Identifier: GPL-3.0 WITH GCC-exception-3.1 -->",
    "// SPDX-License-Identifier: Apache-2.0 OR MIT",
    "# SPDX-License-Identifier: MIT SPDX-License-Identifier: GPL-2.0",
    "/* SPDX-License-Identifier: MIT */ /* generated */",
    "# SPDX-License-Identifier:" }

\* The numbers of lines before the declaring line.
ReuseLeads == {0, ReuseScanLines - 1, ReuseScanLines}

\* The files extract_license_identifiers_from_file is called on: a
\* declaring line after some lines of code, then a second declaration.
ExtractFiles ==
    { File(Repeat("x = 1\n", n) \o a \o "\n" \o b, r) :
        n \in ReuseLeads, a \in LicenseLines,
        b \in {"", "# SPDX-License-Identifier: BSD-3-Clause"}, r \in BOOLEAN }

ExtractInit ==
    /\ env = MakeEnv(<<>>, PlainGit, PlainSkip, <<>>)
    /\ args = MakeArgs("extract_license_identifiers_from_file", <<>>, PlainExpected,
                       PlainGit, PlainSkip)
    /\ h_in \in {[file |-> f] : f \in ExtractFiles}
    /\ RunInit
    /\ h_out = <<>>

\* extract_license_identifiers_from_file(file_path).
ExtractCall ==
    /\ args.entry = "extract_license_identifiers_from_file"
    /\ pc = "start"
    /\ h_out' = <<extract_license_identifiers_from_file(h_in.file)>>
    /\ pc' = "done"
    /\ UNCHANGED <<inVars, h_in, verifier, git_tracked_files, path_idx, cur_dir, dir_todo,
                   dir_passed, dir_result, stats, all_passed, reuse, exit_code, output>>

\* The tracked files of a compliance check and what they declare.
ReuseContents == {
    "# SPDX-License-Identifier: Apache-2.0\n# Content",
    "// SPDX-License-Identifier: MIT\nlet x = 1",
    "# SPDX-License-Identifier: Apache-2.0 OR MIT\n",
    "print('no header')" }
ReuseFileSystems ==
    { [f \in {FileA, FileB} |-> IF f = FileA THEN File(a, TRUE) ELSE File(b, r)] :
        a \in ReuseContents, b \in ReuseContents, r \in BOOLEAN }

\* What stands at LICENSES: nothing, a regular file, or a directory holding
\* some of these files.
LicenseFileNames == {"Apache-2.0.txt", "MIT.txt", "Apache-2.0 OR MIT.txt", "MIT.license", "NOTICE"}
LicensesStates ==
    { [licenses |-> <<>>, is_file |-> FALSE], [licenses |-> <<>>, is_file |-> TRUE] }
    \cup { [licenses |-> <<S>>, is_file |-> FALSE] :
             S \in {{}, {"Apache-2.0.txt"}, {"Apache-2.0.txt", "MIT.txt"},
                    {"Apache-2.0.txt", "MIT.license"}, {"MIT.txt", "NOTICE", "MIT.license"},
                    LicenseFileNames} }

\* The tracked sets handed over: one file, both, and one with a path that
\* is no file.
TrackedSets == { {FileA}, {FileA, FileB}, {FileB, "proj/gone.py"} }

ReuseInit ==
    /\ \E fsys \in ReuseFileSystems, l \in LicensesStates :
          env = [MakeEnv(fsys, PlainGit, PlainSkip, <<FileA, FileB>>)
                    EXCEPT !.licenses = l.licenses, !.licenses_is_file = l.is_file]
    /\ args = MakeArgs("verify_reuse_compliance", <<>>, PlainExpected, PlainGit, PlainSkip)
    /\ h_in \in {[tracked |-> {Resolve(f) : f \in t}] : t \in TrackedSets}
    /\ RunInit
    /\ h_out = <<>>

\* verify_reuse_compliance(git_tracked_files, git_root).
ReuseCall ==
    /\ args.entry = "verify_reuse_compliance"
    /\ pc = "start"
    /\ h_out' = <<verify_reuse_compliance(h_in.tracked, env)>>
    /\ pc' = "done"
    /\ UNCHANGED <<inVars, h_in, verifier, git_tracked_files, path_idx, cur_dir, dir_todo,
                   dir_passed, dir_result, stats, all_passed, reuse, exit_code, output>>

InitReuse == ReuseInit \/ ExtractInit
NextReuse == ReuseCall \/ ExtractCall

SpecReuse == InitReuse /\ [][NextReuse]_vars

(***************************************************************************)
(* Properties of check_license_header (SpecHeader)                         *)
(***************************************************************************)

\* Both files of the pair have been checked, the first one readable and of
\* a language the verifier resolves.
HeaderChecked ==
    /\ h_out # <<>>
    /\ h_in.file.readable
    /\ get_language_for_file(verifier, h_in.file_path) # None

Verdict(passed, message) == [passed |-> passed, message |-> message]

\* The first ten lines of a text, as the file holds them.
RawLines(content) == Take(Split(content, "\n"), 10)

\* C1: for a readable file of a resolvable language the verdict is the row of
\* the decision table that the four flags select, the "missing" rows first:
\* neither found, only copyright found, only license found, both found and
\* neither correct (the message names both expected values), only copyright
\* correct, only license correct, both correct.
C1_DecisionTable ==
    HeaderChecked =>
        LET lines == FirstLines(h_in.file.content)
            lf == LicenseFound(lines)
            cf == CopyrightFound(lines)
            lc == CorrectLicense(lines, verifier.license_id)
            cc == CorrectCopyright(lines, verifier.copyright_holder)
            L == verifier.license_id
            C == verifier.copyright_holder
            r == h_out[1]
        IN  /\ (~lf /\ ~cf) =>
                  r = Verdict(FALSE, "Missing both license and copyright headers")
            /\ (~lf /\ cf) => r = Verdict(FALSE, "Missing license header")
            /\ (lf /\ ~cf) => r = Verdict(FALSE, "Missing copyright header")
            /\ (lf /\ cf /\ ~lc /\ ~cc) =>
                  /\ ~r.passed
                  /\ StartsWith(r.message, "Wrong license and copyright")
                  /\ Contains(L, r.message) /\ Contains(C, r.message)
            /\ (lf /\ cf /\ ~lc /\ cc) =>
                  r = Verdict(FALSE, "Wrong license (expected " \o L \o ")")
            /\ (lf /\ cf /\ lc /\ ~cc) =>
                  r = Verdict(FALSE, "Wrong copyright (expected " \o C \o ")")
            /\ (lf /\ cf /\ lc /\ cc) => r = Verdict(TRUE, "Valid SPDX headers found")

\* A license declared with the wrong identifier and no copyright declared:
\* the "missing" row wins.
C1_Witness ==
    /\ HeaderChecked
    /\ LicenseFound(FirstLines(h_in.file.content))
    /\ ~CorrectLicense(FirstLines(h_in.file.content), verifier.license_id)
    /\ ~CopyrightFound(FirstLines(h_in.file.content))
    /\ h_out[1] = Verdict(FALSE, "Missing copyright header")

\* What the verdict says about the declarations.
SaysLicenseFound(r) ==
    r.message \notin {"Missing both license and copyright headers", "Missing license header"}
SaysCopyrightFound(r) ==
    r.message \notin {"Missing both license and copyright headers", "Missing copyright header"}
SaysLicenseCorrect(r) == r.passed \/ StartsWith(r.message, "Wrong copyright (")
SaysCopyrightCorrect(r) == r.passed \/ StartsWith(r.message, "Wrong license (")

\* The flags of a verdict agree with found/correct as decided on the lines
\* as the file holds them, or on the lines stripped of the whitespace at
\* their ends.
FlagsAgree(r, stripped) ==
    LET lines == RawLines(h_in.file.content)
        seen(line) == IF stripped THEN LStrip(RStrip(line)) ELSE line
        has(text, i) == Contains(text, seen(lines[i]))
        lf == \E i \in 1..Len(lines) : has(SPDX_LICENSE_IDENTIFIER, i)
        cf == \E i \in 1..Len(lines) : has(SPDX_FILE_COPYRIGHT, i)
        lc == \E i \in 1..Len(lines) :
                 has(SPDX_LICENSE_IDENTIFIER, i) /\ has(verifier.license_id, i)
        cc == \E i \in 1..Len(lines) :
                 has(SPDX_FILE_COPYRIGHT, i) /\ has(verifier.copyright_holder, i)
    IN  /\ SaysLicenseFound(r) <=> lf
        /\ SaysCopyrightFound(r) <=> cf
        /\ (lf /\ cf) => /\ SaysLicenseCorrect(r) <=> lc
                         /\ SaysCopyrightCorrect(r) <=> cc

C3_FirstTenLines ==
    HeaderChecked =>
        LET lines == RawLines(h_in.file.content)
            lines2 == RawLines(h_in.file2.content)
        IN  /\ (h_in.file2.readable /\ lines = lines2) => h_out[1] = h_out[2]
            /\ (\A i \in 1..Len(lines) : ~Contains(SPDX_LICENSE_IDENTIFIER, lines[i]))
                  => ~SaysLicenseFound(h_out[1])
            /\ (\A i \in 1..Len(lines) : ~Contains(SPDX_FILE_COPYRIGHT, lines[i]))
                  => ~SaysCopyrightFound(h_out[1])
            /\ h_in.file.content = "" =>
                  h_out[1] = Verdict(FALSE, "Missing both license and copyright headers")
            /\ h_in.pair = "long" => h_out[1] = h_out[2]

\* Two files with the same first 10 lines, the second with a license
\* declaration on line 11 that the first 10 lines lack.
C3_Witness ==
    /\ HeaderChecked
    /\ h_in.pair = "tail"
    /\ RawLines(h_in.file.content) = RawLines(h_in.file2.content)
    /\ Len(Split(h_in.file2.content, "\n")) > 10
    /\ Contains(SPDX_LICENSE_IDENTIFIER, Split(h_in.file2.content, "\n")[11])
    /\ ~SaysLicenseFound(h_out[2])
    /\ h_out[1] = h_out[2]

(***************************************************************************)
(* Properties of a run (Spec)                                              *)
(***************************************************************************)

\* A step of the loop that has a regular file in hand: the next file of a
\* directory walk, or a single-file input path.
AtDirFile == pc = "dir" /\ dir_todo # <<>>
AtSingleFile == InLoop /\ IsFile(env, CurPath)
StepFile == IF pc = "dir" THEN DirFile ELSE CurPath
StepRel == IF pc = "dir" THEN RelativeTo(DirFile, cur_dir) ELSE CurPath

\* The file's resolved absolute path is outside a filter that is in place.
OutsideFilter(f) == ~git_tracked_files.none /\ Resolve(f) \notin git_tracked_files.files

Kinds(lines) == {lines[i].kind : i \in 1..Len(lines)}

\* C4: each enumerated file gets exactly one of four outcomes, tested in
\* this order: outside the tracked-file filter, no counter changes; matching
\* a skip pattern, skipped + 1 and no other counter changes; language
\* unresolved, skipped + 1 and checked unchanged; otherwise checked + 1, and
\* passed + 1 iff the verdict passes.
C4_StepOrder ==
    [][(AtDirFile \/ AtSingleFile) =>
         LET f == StepFile
             r == check_license_header(verifier, f, env.fs[f])
         IN  IF OutsideFilter(f)
             THEN stats' = stats
             ELSE IF should_skip_file(verifier, StepRel)
             THEN stats' = [stats EXCEPT !.skipped = @ + 1]
             ELSE IF get_language_for_file(verifier, f) = None
             THEN /\ stats'.skipped = stats.skipped + 1
                  /\ stats'.checked = stats.checked
             ELSE /\ stats'.checked = stats.checked + 1
                  /\ stats'.passed = stats.passed + (IF r.passed THEN 1 ELSE 0)
                  /\ stats'.skipped = stats.skipped]_vars

\* One walk has met all four outcomes.
C4_Witness ==
    /\ pc = "dir_return"
    /\ {"SKIP_UNTRACKED", "SKIP", "SKIP_UNKNOWN"} \subseteq Kinds(output)
    /\ Kinds(output) \cap {"PASS", "FAIL"} # {}
    /\ stats.checked = 1 /\ stats.skipped = 2

\* The verdicts of the files of a sequence that the walk of directory d checks.
WalkVerdicts(d, files) ==
    LET checks(f) == /\ ~OutsideFilter(f)
                     /\ ~should_skip_file(verifier, RelativeTo(f, d))
                     /\ get_language_for_file(verifier, f) # None
    IN  {check_license_header(verifier, f, env.fs[f]).passed :
           f \in {g \in Range(files) : checks(g)}}

\* verify_directory has returned after walking an existing directory: the
\* last lines printed are about its files, one line each in listing order,
\* and the result is the AND of the verdicts of the files it checked.
WalkedAll ==
    LET files == RegularFilesUnder(env, cur_dir)
        base == Len(output) - Len(files)
    IN  /\ base >= 0
        /\ \A j \in 1..Len(files) : output[base + j].path = files[j]
        /\ dir_result = <<FALSE \notin WalkVerdicts(cur_dir, files)>>

\* C5 (as amended): a failing verdict never halts the walk, every file under
\* the directory is processed, and verify_directory returns the AND of the
\* verdicts of the files it checked (true when it checked none) for a
\* directory that exists; for one that does not exist it returns false and
\* processes nothing.
C5_WalkNeverHalts ==
    pc = "dir_return" =>
        IF Exists(env, cur_dir)
        THEN WalkedAll
        ELSE dir_result = <<FALSE>> /\ stats = InitialStats

\* A walk went on after a failing verdict and returned false.
C5_Witness ==
    /\ pc = "dir_return"
    /\ Exists(env, cur_dir)
    /\ dir_result = <<FALSE>>
    /\ \E i \in 1..Len(output) : \E j \in (i + 1)..Len(output) :
          output[i].kind = "FAIL" /\ output[j].kind \in {"PASS", "FAIL"}

\* C5 (as stated): whatever the directory, verify_directory returns the AND
\* of the verdicts of the files it checked, true when it checked none.
C5_AsStated == pc = "dir_return" => WalkedAll

\* For C6: what ends a run of verify with a failure.
IsFailLine(line) == line.kind = "FAIL"
SomeCheckFailed == Cardinality({i \in 1..Len(output) : IsFailLine(output[i])}) > 0
ComplianceFailed == reuse # <<>> /\ ~reuse[1].passed
VerifyEnded == pc = "done" /\ args.entry = "verify"

MissesLicense(line) ==
    /\ line.kind = "FAIL"
    /\ line.message \in {"Missing license header",
                         "Missing both license and copyright headers"}
MissesCopyright(line) ==
    /\ line.kind = "FAIL"
    /\ line.message \in {"Missing copyright header",
                         "Missing both license and copyright headers"}
WrongLicense(line) ==
    /\ line.kind = "FAIL"
    /\ StartsWith(line.message, "Wrong license (")
          \/ StartsWith(line.message, "Wrong license and copyright (")
WrongCopyright(line) ==
    /\ line.kind = "FAIL"
    /\ StartsWith(line.message, "Wrong copyright (")
          \/ StartsWith(line.message, "Wrong license and copyright (")

\* C7: every checked file with a failing "missing" or "wrong" verdict has
\* incremented the counters of that verdict, whether a directory walk reached
\* it or it was a single-file input path.
C7_ReasonCounters ==
    /\ stats.missing_license = Cardinality({i \in 1..Len(output) : MissesLicense(output[i])})
    /\ stats.missing_copyright = Cardinality({i \in 1..Len(output) : MissesCopyright(output[i])})
    /\ stats.wrong_license = Cardinality({i \in 1..Len(output) : WrongLicense(output[i])})
    /\ stats.wrong_copyright = Cardinality({i \in 1..Len(output) : WrongCopyright(output[i])})

\* C8: with a tracked-file filter in place, a file whose resolved path is
\* outside it, under a directory or given as an input path, is not
\* header-checked, changes no counter, and leaves the result of the walk and
\* of the run as they were.
C8_UntrackedIsInert ==
    [][((AtDirFile \/ AtSingleFile) /\ OutsideFilter(StepFile)) =>
         /\ stats' = stats
         /\ all_passed' = all_passed
         /\ dir_passed' = dir_passed
         /\ Len(output') = Len(output) + 1
         /\ output'[Len(output')].kind \notin {"PASS", "FAIL"}]_vars

\* A run passed although a file outside the filter has a failing header.
C8_Witness ==
    /\ VerifyEnded
    /\ exit_code = <<0>>
    /\ stats.checked > 0
    /\ \E i \in 1..Len(output) :
          /\ output[i].kind = "SKIP_UNTRACKED"
          /\ OutsideFilter(output[i].path)
          /\ ~check_license_header(verifier, output[i].path, env.fs[output[i].path]).passed

\* What the loop of verify visits from input path i on: each regular file,
\* with the path its skip test sees, and each path that is neither a file
\* nor a directory.
RECURSIVE Visits(_)
Visits(i) ==
    IF i > Len(args.paths) THEN <<>>
    ELSE LET p == args.paths[i]
             files == RegularFilesUnder(env, p)
             here == IF IsFile(env, p) THEN <<[file |-> p, rel |-> p, bad |-> FALSE]>>
                     ELSE IF IsDir(env, p)
                     THEN [k \in 1..Len(files) |->
                             [file |-> files[k], rel |-> RelativeTo(files[k], p),
                              bad |-> FALSE]]
                     ELSE <<[file |-> p, rel |-> p, bad |-> TRUE]>>
         IN  here \o Visits(i + 1)

VisitSkipped(v) ==
    /\ ~v.bad /\ ~OutsideFilter(v.file)
    /\ \/ should_skip_file(verifier, v.rel)
       \/ get_language_for_file(verifier, v.file) = None
VisitChecked(v) ==
    /\ ~v.bad /\ ~OutsideFilter(v.file)
    /\ ~should_skip_file(verifier, v.rel)
    /\ get_language_for_file(verifier, v.file) # None

\* C9: an input path that does not exist is reported and fails the run, and
\* every other input path, before or after it, is still walked and counted
\* in the statistics.
C9_MissingPathGoesOn ==
    (VerifyEnded /\ \E i \in 1..Len(args.paths) : ~Exists(env, args.paths[i])) =>
        /\ exit_code = <<1>>
        /\ \A i \in 1..Len(args.paths) :
              ~Exists(env, args.paths[i]) =>
                 \E k \in 1..Len(output) :
                    output[k] = Line("ERROR", args.paths[i], "does not exist")
        /\ LET visits == Visits(1)
           IN  /\ stats.checked
                     = Cardinality({i \in 1..Len(visits) : VisitChecked(visits[i])})
               /\ stats.skipped
                     = Cardinality({i \in 1..Len(visits) : VisitSkipped(visits[i])})

\* A path that does not exist came first and the directory after it was
\* walked and counted.
C9_Witness ==
    /\ VerifyEnded
    /\ ~Exists(env, args.paths[1])
    /\ Len(args.paths) > 1
    /\ stats.checked >= 2 /\ stats.skipped >= 2
    /\ exit_code = <<1>>

\* C10: a file of a resolvable language that cannot be read gets a failing
\* verdict whose reason is "Error reading file: " and the error text, and
\* the run goes on: when verify ends, the lines printed are about all that
\* its loop visits, in order.
C10_ReadErrorIsLocal ==
    /\ \A k \in 1..Len(output) :
          (output[k].kind \in {"PASS", "FAIL"} /\ ~env.fs[output[k].path].readable) =>
              /\ output[k].kind = "FAIL"
              /\ StartsWith(output[k].message, "Error reading file: ")
              /\ Len(output[k].message) > Len("Error reading file: ")
    /\ (VerifyEnded /\ \E f \in DOMAIN env.fs : ~env.fs[f].readable) =>
          LET visits == Visits(1)
          IN  /\ Len(output) = Len(visits)
              /\ \A k \in 1..Len(output) : output[k].path = visits[k].file

\* A walk met a file it could not read and checked another file after it.
C10_Witness ==
    /\ VerifyEnded
    /\ \E i \in 1..Len(output) : \E j \in (i + 1)..Len(output) :
          /\ output[i].kind = "FAIL"
          /\ StartsWith(output[i].message, "Error reading file: ")
          /\ output[j].kind \in {"PASS", "FAIL"}
          /\ output[j].path # output[i].path

(***************************************************************************)
(* Properties of files of no known language (SpecAll)                      *)
(***************************************************************************)

UnknownTypeVerdict == Verdict(TRUE, "Unknown file type, skipping")

\* C11: for a file of no resolvable language check_license_header returns
\* pass with reason "Unknown file type, skipping", whatever the content and
\* whether or not the file can be read; in a run such a file gets no verdict
\* line, and a run that visits only such files does not fail.
C11_UnknownTypePasses ==
    /\ (/\ args.entry = "check_license_header"
        /\ h_out # <<>>
        /\ get_language_for_file(verifier, h_in.file_path) = None) =>
            h_out = <<UnknownTypeVerdict, UnknownTypeVerdict>>
    /\ \A k \in 1..Len(output) :
          (/\ output[k].path \in DOMAIN env.fs
           /\ get_language_for_file(verifier, output[k].path) = None) =>
              output[k].kind \in {"SKIP_UNTRACKED", "SKIP", "SKIP_UNKNOWN"}
    /\ (/\ VerifyEnded
        /\ ~ComplianceFailed
        /\ \A i \in 1..Len(args.paths) :
              /\ IsFile(env, args.paths[i])
              /\ get_language_for_file(verifier, args.paths[i]) = None) =>
            exit_code = <<0>>

\* A file of no known language that cannot be read, and holds no header,
\* has passed.
C11_Witness ==
    /\ args.entry = "check_license_header"
    /\ h_out # <<>>
    /\ get_language_for_file(verifier, h_in.file_path) = None
    /\ ~h_in.file2.readable
    /\ h_in.file.content = "notes"
    /\ h_out[2] = UnknownTypeVerdict

(***************************************************************************)
(* Properties of get_language_for_file (SpecLang)                          *)
(***************************************************************************)

\* The language table in force, and the path asked about.
LangTable == load_config(env.config_file).languages
LangResolved == args.entry = "get_language_for_file" /\ h_out # <<>>

\* The folded strings the languages list under field ("extensions" or
\* "filenames"), and the languages that list string k.
ListedKeys(field) ==
    UNION {{Lower(LangTable[i][field][j]) : j \in 1..Len(LangTable[i][field])} :
             i \in 1..Len(LangTable)}
ListedBy(field, k) ==
    {LangTable[i].name :
        i \in {n \in 1..Len(LangTable) :
                 \E j \in 1..Len(LangTable[n][field]) : Lower(LangTable[n][field][j]) = k}}

\* The extension strings the folded file name equals or ends with.
LegacyKeys(lname) == {k \in ListedKeys("extensions") : lname = k \/ EndsWith(lname, k)}

\* C12: get_language_for_file resolves a path by the first rule that
\* matches, in this order: the path's extension, folded to lower case, is a
\* registered extension, and the result is a language that lists it; else
\* the folded file name is a registered file name, and the result is a
\* language that lists it; else the folded file name equals or ends with a
\* registered extension string, and the result is a language that lists
\* such a string. An extension match therefore wins over a file-name match,
\* and a file-name match over the legacy suffix match.
C12_ResolutionOrder ==
    LangResolved =>
        LET suffix == Lower(PathSuffix(h_in.file_path))
            lname == Lower(PathName(h_in.file_path))
        IN  IF suffix \in ListedKeys("extensions")
            THEN h_out[1] \in ListedBy("extensions", suffix)
            ELSE IF lname \in ListedKeys("filenames")
            THEN h_out[1] \in ListedBy("filenames", lname)
            ELSE LegacyKeys(lname) # {} =>
                    h_out[1] \in UNION {ListedBy("extensions", k) : k \in LegacyKeys(lname)}

\* "CMakeLists.txt" is a registered file name of cmake and has the
\* registered extension ".txt" of text: the extension decides.
C12_Witness ==
    /\ LangResolved
    /\ h_in.file_path = "CMakeLists.txt"
    /\ env.config_file # <<>>
    /\ "cmake" \in ListedBy("filenames", "cmakelists.txt")
    /\ h_out = <<"text">>


\* No rule of C12 resolves the path asked about.
LangUnresolved ==
    LET suffix == Lower(PathSuffix(h_in.file_path))
        lname == Lower(PathName(h_in.file_path))
    IN  /\ suffix \notin ListedKeys("extensions")
        /\ lname \notin ListedKeys("filenames")
        /\ LegacyKeys(lname) = {}

\* The "default_file_type" key in force, and the names of the languages.
FallbackKey == load_config(env.config_file).default_file_type
ConfiguredNames == {LangTable[i].name : i \in 1..Len(LangTable)}

\* C13: for a path no rule resolves, default-file-type mode is active iff
\* the caller enabled it, or the configuration enables it and the caller did
\* not disable it; when active the result is the caller's override if it is
\* present and names a configured language, and otherwise the configured
\* fallback language (none when the configuration names no configured
\* language); when inactive the result is none.
C13_DefaultFileType ==
    (LangResolved /\ LangUnresolved) =>
        LET active == \/ args.enable_default_file_type
                      \/ FallbackKey.enabled /\ ~args.disable_default_file_type
            override == args.default_file_type_override
            fallback == IF FallbackKey.language \in ConfiguredNames
                        THEN FallbackKey.language ELSE None
        IN  h_out[1] = IF ~active THEN None
                       ELSE IF override \notin {None, ""} /\ override \in ConfiguredNames
                       THEN override
                       ELSE fallback

\* The registry has been built; two languages of the configuration list
\* the same extension, up to case.
RegistryBuilt == args.entry = "get_language_for_file" /\ pc # "start"
ExtensionClash ==
    \E k \in ListedKeys("extensions") : Cardinality(ListedBy("extensions", k)) > 1

\* Dict d has no key twice and gives every key a language that lists it
\* under field.
IsFunctionOf(d, field) ==
    /\ \A i, j \in 1..Len(d) : d[i][1] = d[j][1] => i = j
    /\ \A i \in 1..Len(d) : d[i][2] \in ListedBy(field, d[i][1])

\* C14: extension-to-language resolution is a function: in the registry no
\* extension or file name, folded to lower case, belongs to two languages;
\* and building the registry from a configuration in which two languages
\* list the same extension ends in an error state (pc = "config_error")
\* instead of a registry that silently kept one of them.
C14_RegistryIsFunction ==
    RegistryBuilt =>
        IF ExtensionClash THEN pc = "config_error"
        ELSE /\ IsFunctionOf(verifier.ext_to_lang, "extensions")
             /\ IsFunctionOf(verifier.filename_to_lang, "filenames")

(***************************************************************************)
(* Properties of the skip rules (SpecSkip)                                 *)
(***************************************************************************)

SkipTested == args.entry = "should_skip_file" /\ h_out # <<>>

\* The three pattern sources of the verifier, and the verifier built from
\* them when each source is inserted in order or reversed (r) and the set
\* lists its elements in hash order o.
PatternSources ==
    <<load_config(env.config_file).default_skip_patterns, env.gitignore, args.skip>>
Reordered(r, o) ==
    NewVerifier([args EXCEPT !.skip = IF r THEN Reverse(args.skip) ELSE args.skip],
                [env EXCEPT !.gitignore = IF r THEN Reverse(env.gitignore) ELSE env.gitignore,
                            !.hash_order = o])

\* C15: the pattern list of a verifier holds the patterns of the default,
\* ignore-file and caller lists once each and nothing else; should_skip_file
\* gives the same result for a path whatever the order in which the sources
\* and their patterns were inserted; and a second call on the same path
\* gives the result of the first.
C15_SkipOrderIndependent ==
    SkipTested =>
        /\ Range(verifier.skip_patterns)
              = Range(PatternSources[1]) \cup Range(PatternSources[2]) \cup Range(PatternSources[3])
        /\ \A i, j \in 1..Len(verifier.skip_patterns) :
              verifier.skip_patterns[i] = verifier.skip_patterns[j] => i = j
        /\ \A r \in BOOLEAN, o \in HashOrders :
              should_skip_file(Reordered(r, o), SkipArgument) = h_out[1]
        /\ \A n \in 1..Len(h_out) : h_out[n] = h_out[1]

\* The file's path relative to the scan root: the walked directory for a
\* listed file, the working directory of the run for an input path.
ScanRootRelative ==
    IF h_in.via = "directory" THEN RelativeTo(h_in.file_path, h_in.directory)
    ELSE IF StartsWith(h_in.file_path, Cwd \o "/") THEN RelativeTo(h_in.file_path, Cwd)
    ELSE h_in.file_path

\* Path x matches the pattern list of the verifier, by the matcher in use.
PatternHit(x) ==
    IF verifier.has_pathspec /\ verifier.skip_patterns # <<>>
    THEN PathspecMatchFile(verifier.skip_patterns, x)
    ELSE \E i \in 1..Len(verifier.skip_patterns) : glob_match(x, verifier.skip_patterns[i])

\* C16: for a file listed under a walked directory and for a file given as
\* an input path alike, the skip test is made on the file's path relative
\* to the scan root and on its bare name, and the file is skipped iff one of
\* the two matches the pattern list.
C16_SkipOnRelativeAndName ==
    SkipTested =>
        h_out[1] = (PatternHit(ScanRootRelative) \/ PatternHit(PathName(h_in.file_path)))

(***************************************************************************)
(* Properties of the REUSE functions (SpecReuse)                           *)
(***************************************************************************)

ReuseCalled == args.entry = "verify_reuse_compliance" /\ h_out # <<>>

\* C17: with no LICENSES directory under the repository root (nothing of
\* that name, or something that is no directory) verify_reuse_compliance
\* returns non-compliant with the one issue "LICENSES directory not found at
\* repository root": no issue about an identifier or a file name is added.
C17_NoLicensesDirectory ==
    (ReuseCalled /\ env.licenses = <<>>) =>
        h_out[1] = [raised |-> FALSE, passed |-> FALSE,
                    issues |-> <<"LICENSES directory not found at repository root">>]

\* The expressions the tracked regular files declare, and the two issue
\* texts.
UsedExpressions ==
    UNION {extract_license_identifiers_from_file(env.fs[f]) :
             f \in {g \in DOMAIN env.fs : Resolve(g) \in h_in.tracked}}
MissingIssue(x) == "Missing license file: LICENSES/" \o x \o ".txt"
NamingIssue(n) == "License file with incorrect extension: LICENSES/" \o n \o " (should be .txt)"

\* How often text t stands in issue list issues.
TimesIn(issues, t) == Cardinality({i \in 1..Len(issues) : issues[i] = t})

\* C18: when LICENSES is a directory, the issue list holds exactly one
\* "Missing license file" issue for each distinct expression declared in a
\* tracked file for which the directory has no file "<expression>.txt",
\* exactly one naming issue for each file of the directory whose name does
\* not end in ".txt", used or not, and nothing else; the result is compliant
\* iff the list is empty.
C18_IssueList ==
    (ReuseCalled /\ env.licenses # <<>>) =>
        LET r == h_out[1]
            files == env.licenses[1]
        IN  /\ ~r.raised
            /\ \A x \in UsedExpressions :
                  TimesIn(r.issues, MissingIssue(x)) = IF (x \o ".txt") \in files THEN 0 ELSE 1
            /\ \A n \in files :
                  TimesIn(r.issues, NamingIssue(n)) = IF EndsWith(n, ".txt") THEN 0 ELSE 1
            /\ \A i \in 1..Len(r.issues) :
                  \/ \E x \in UsedExpressions : r.issues[i] = MissingIssue(x)
                  \/ \E n \in files : r.issues[i] = NamingIssue(n)
            /\ r.passed <=> (r.issues = <<>>)

\* The tracked file declares Apache-2.0; LICENSES holds MIT.txt, NOTICE and
\* MIT.license: one missing-file issue and two naming issues.
C18_Witness ==
    /\ ReuseCalled
    /\ env.licenses = <<{"MIT.txt", "NOTICE", "MIT.license"}>>
    /\ UsedExpressions = {"Apache-2.0"}
    /\ Len(h_out[1].issues) = 3
    /\ TimesIn(h_out[1].issues, MissingIssue("Apache-2.0")) = 1
    /\ TimesIn(h_out[1].issues, NamingIssue("MIT.license")) = 1
    /\ ~h_out[1].passed

ExtractCalled == args.entry = "extract_license_identifiers_from_file" /\ h_out # <<>>

\* The lines of a text, as the file holds them.
FileLines(content) == Split(content, "\n")

\* The first 20 lines of the file that hold the marker.
DeclaringLines ==
    LET lines == FileLines(h_in.file.content)
    IN  {lines[i] : i \in {j \in 1..Len(lines) :
                             j <= 20 /\ Contains(SPDX_LICENSE_IDENTIFIER, lines[j])}}

\* The text of a line after its first marker, up to the next marker or to
\* the end of the line.
AfterFirstMarker(line) ==
    LET p == Find(line, SPDX_LICENSE_IDENTIFIER, 1)
        rest == SubSeq(line, p + Len(SPDX_LICENSE_IDENTIFIER), Len(line))
        q == Find(rest, SPDX_LICENSE_IDENTIFIER, 1)
    IN  IF q = 0 THEN rest ELSE SubSeq(rest, 1, q - 1)

\* C19: extract_license_identifiers_from_file looks only at the first 20
\* lines; each of those lines that holds the marker yields one expression:
\* the text between the first marker of the line and the next marker (or the
\* end of the line), trimmed, with every "-->" and "*/" removed from it, and
\* trimmed again. A compound expression is returned as one identifier, and
\* an unreadable file yields the empty set.
C19_ExtractIdentifiers ==
    ExtractCalled =>
        h_out[1] = IF ~h_in.file.readable THEN {}
                   ELSE {Strip(Remove(Remove(Strip(AfterFirstMarker(Strip(l))), "-->"), "*/")) :
                           l \in DeclaringLines}

\* Line 20 holds the marker twice and line 21 declares BSD-3-Clause: the
\* result is the text between the two markers alone.
C19_Witness ==
    /\ ExtractCalled
    /\ h_in.file.readable
    /\ Len(FileLines(h_in.file.content)) = 21
    /\ FileLines(h_in.file.content)[20]
          = "# SPDX-License-Identifier: MIT SPDX-License-Identifier: GPL-2.0"
    /\ Contains("BSD-3-Clause", FileLines(h_in.file.content)[21])
    /\ h_out = <<{"MIT"}>>

\* The places of a line where the marker starts, and s without one closing
\* token at its end.
MarkerPlaces(line) ==
    {p \in 1..(Len(line) - Len(SPDX_LICENSE_IDENTIFIER) + 1) :
        SubSeq(line, p, p + Len(SPDX_LICENSE_IDENTIFIER) - 1) = SPDX_LICENSE_IDENTIFIER}
WithoutClosing(s) ==
    IF EndsWith(s, "*/") THEN SubSeq(s, 1, Len(s) - 2)
    ELSE IF EndsWith(s, "-->") THEN SubSeq(s, 1, Len(s) - 3)
    ELSE s

\* C19 (as stated): each occurrence of the marker yields the full remainder
\* of the line after it, without a closing token at its end, trimmed.
C19_AsStated ==
    ExtractCalled =>
        h_out[1] = IF ~h_in.file.readable THEN {}
                   ELSE UNION {{Strip(WithoutClosing(Strip(SubSeq(l,
                                    p + Len(SPDX_LICENSE_IDENTIFIER), Len(l))))) :
                                  p \in MarkerPlaces(l)} : l \in DeclaringLines}

(***************************************************************************)
(* Properties of the git fallback (Spec)                                   *)
(***************************************************************************)

\* verify runs in pre-commit mode and git cannot list the tracked files.
GitFailed == args.entry = "verify" /\ args.pre_commit_mode /\ ~env.git_ok

\* What a run without pre-commit mode does with a visited file.
PlainlySkipped(v) ==
    /\ ~v.bad
    /\ \/ should_skip_file(verifier, v.rel)
       \/ get_language_for_file(verifier, v.file) = None
PlainlyChecked(v) ==
    /\ ~v.bad
    /\ ~should_skip_file(verifier, v.rel)
    /\ get_language_for_file(verifier, v.file) # None
PlainlyPassed(v) ==
    PlainlyChecked(v) /\ check_license_header(verifier, v.file, env.fs[v.file]).passed

\* C20: when git cannot list the tracked files in pre-commit mode the run
\* goes on without a tracked-file filter: no file is left out as untracked,
\* no compliance check runs, and at the end every file under the input
\* paths has been skipped or checked as a run without pre-commit mode does,
\* with the exit status that follows from the verdicts.
C20_GitFailureFallsBack ==
    GitFailed =>
        /\ "SKIP_UNTRACKED" \notin Kinds(output)
        /\ reuse = <<>>
        /\ VerifyEnded =>
              LET visits == Visits(1)
              IN  /\ stats.checked
                        = Cardinality({i \in 1..Len(visits) : PlainlyChecked(visits[i])})
                  /\ stats.skipped
                        = Cardinality({i \in 1..Len(visits) : PlainlySkipped(visits[i])})
                  /\ stats.passed
                        = Cardinality({i \in 1..Len(visits) : PlainlyPassed(visits[i])})
                  /\ exit_code = IF \/ stats.passed < stats.checked
                                    \/ \E i \in 1..Len(visits) : visits[i].bad
                                 THEN <<1>> ELSE <<0>>

\* A run whose git listing failed ended after checking files that git
\* tracking could not vouch for.
C20_Witness ==
    /\ GitFailed
    /\ VerifyEnded
    /\ stats.checked >= 2
    /\ stats.skipped >= 1
    /\ stats.passed >= 1

(***************************************************************************)
(* load_config, load_gitignore_patterns and SPDXVerifier(...) on every     *)
(* state of spdx-config.yaml and .gitignore (SpecConfig)                   *)
(***************************************************************************)

\* A value yaml.safe_load returns, by the Python type it has: "dict", "list",
\* "str" or "null"; value holds the items of a dict of languages or of a list
\* of patterns, and is empty for the other shapes.
Shaped(shape, value) == [shape |-> shape, value |-> value]

\* The sections of default_config.
DefaultSections ==
    [languages |-> Shaped("dict", DefaultLanguages),
     default_skip_patterns |-> Shaped("list", DefaultSkipPatterns)]

\* load_config over the states of spdx-config.yaml. The file may not exist;
\* open may raise (state "unreadable") and yaml.safe_load may raise (state
\* "invalid"), both caught; an empty document loads as None and is replaced
\* by {}; a document whose top level is a scalar makes dict.update raise,
\* which is caught too; a mapping replaces, whole and as it stands, each
\* top-level key it has (a key it lacks is <<>>).
load_config_source(source) ==
    IF source.state \in {"missing", "unreadable", "invalid", "empty", "scalar"}
    THEN DefaultSections
    ELSE [languages |->
              IF source.languages = <<>> THEN DefaultSections.languages
              ELSE source.languages[1],
          default_skip_patterns |->
              IF source.default_skip_patterns = <<>>
              THEN DefaultSections.default_skip_patterns
              ELSE source.default_skip_patterns[1]]

\* load_gitignore_patterns over the states of .gitignore: the stripped lines
\* that are neither empty nor comments, appended one by one while the file is
\* read. fails_at = <<k>> is a read that raises IOError or UnicodeDecodeError
\* after k lines were handed out (k = 0: open itself raises); the except
\* clause passes and the patterns appended so far are returned.
load_gitignore_patterns(file) ==
    IF ~file.exists THEN <<>>
    ELSE LET n == IF file.fails_at = <<>> THEN Len(file.lines) ELSE file.fails_at[1]
             IsPattern(line) == line # "" /\ ~StartsWith(line, "#")
         IN  SelectSeq([i \in 1..n |-> Strip(file.lines[i])], IsPattern)

\* SPDXVerifier.__init__ raises: default_skip_patterns + gitignore_patterns
\* is a TypeError unless the section is a list, and
\* self.config["languages"].items() is an AttributeError unless the section
\* is a dict.
InitRaises(config) ==
    \/ config.default_skip_patterns.shape # "list"
    \/ config.languages.shape # "dict"

\* SPDXVerifier(...) in a directory with the given configuration source and
\* .gitignore, when it does not raise.
BuiltVerifier(a, e, source, file) ==
    VerifierWith(a, [e EXCEPT !.gitignore = load_gitignore_patterns(file)],
                 [languages |-> load_config_source(source).languages.value,
                  default_skip_patterns |->
                      load_config_source(source).default_skip_patterns.value,
                  default_file_type |-> DefaultConfig.default_file_type])

\* The "languages" sections: absent, a table, an empty table,
\* `languages: [python, c]`, `languages:` and `languages: python`.
LanguagesSections ==
    { <<>>, << Shaped("dict", LoadedLanguages) >>, << Shaped("dict", <<>>) >>,
      << Shaped("list", <<>>) >>, << Shaped("null", <<>>) >>, << Shaped("str", <<>>) >> }

\* The "default_skip_patterns" sections: absent, a list, an empty list,
\* `default_skip_patterns:` and `default_skip_patterns: "*.pyc"`.
SkipSections ==
    { <<>>, << Shaped("list", <<"*.pyc", "lib">>) >>, << Shaped("list", <<>>) >>,
      << Shaped("null", <<>>) >>, << Shaped("str", <<>>) >> }

ConfigSources ==
    { [state |-> s, languages |-> <<>>, default_skip_patterns |-> <<>>] :
        s \in {"missing", "unreadable", "invalid", "empty", "scalar"} }
    \cup { [state |-> "mapping", languages |-> l, default_skip_patterns |-> k] :
             l \in LanguagesSections, k \in SkipSections }

\* The .gitignore files: none, and one of five lines read whole or up to a
\* failure at the opening, inside the file or after its last line.
GitignoreLines == << "# build output", "", "  *.tmp  ", "NOTES", "dist/" >>
GitignoreFiles ==
    { [exists |-> FALSE, lines |-> <<>>, fails_at |-> <<>>] }
    \cup { [exists |-> TRUE, lines |-> GitignoreLines, fails_at |-> f] :
             f \in { <<>>, <<0>>, <<2>>, <<3>>, <<4>>, <<5>> } }

ConfigInit ==
    /\ env = MakeEnv(<<>>, PlainGit, PlainSkip, <<>>)
    /\ \E c \in CallerLists :
          args = [MakeArgs("SPDXVerifier", <<>>, PlainExpected, PlainGit, PlainSkip)
                     EXCEPT !.skip = c]
    /\ \E s \in ConfigSources, g \in GitignoreFiles :
          h_in = [config_source |-> s, gitignore_file |-> g]
    /\ RunInit
    /\ h_out = <<>>

\* load_config().
ConfigLoad ==
    /\ args.entry = "SPDXVerifier"
    /\ pc = "start"
    /\ h_out' = <<load_config_source(h_in.config_source)>>
    /\ pc' = "config"
    /\ UNCHANGED <<inVars, h_in, verifier, git_tracked_files, path_idx, cur_dir, dir_todo,
                   dir_passed, dir_result, stats, all_passed, reuse, exit_code, output>>

\* load_gitignore_patterns(Path.cwd()).
GitignoreLoad ==
    /\ args.entry = "SPDXVerifier"
    /\ pc = "config"
    /\ h_out' = Append(h_out, load_gitignore_patterns(h_in.gitignore_file))
    /\ pc' = "gitignore"
    /\ UNCHANGED <<inVars, h_in, verifier, git_tracked_files, path_idx, cur_dir, dir_todo,
                   dir_passed, dir_result, stats, all_passed, reuse, exit_code, output>>

\* SPDXVerifier(skip_patterns=args.skip): the object, or the exception.
ConfigConstruct ==
    /\ args.entry = "SPDXVerifier"
    /\ pc = "gitignore"
    /\ LET raised == InitRaises(load_config_source(h_in.config_source))
       IN  /\ h_out' = Append(h_out, [raised |-> raised])
           /\ verifier' = IF raised THEN verifier
                          ELSE BuiltVerifier(args, env, h_in.config_source,
                                             h_in.gitignore_file)
    /\ pc' = "done"
    /\ UNCHANGED <<inVars, h_in, git_tracked_files, path_idx, cur_dir, dir_todo,
                   dir_passed, dir_result, stats, all_passed, reuse, exit_code, output>>

NextConfig == ConfigLoad \/ GitignoreLoad \/ ConfigConstruct

SpecConfig == ConfigInit /\ [][NextConfig]_vars

\* SPDXVerifier(...) has returned or raised.
ConfigBuilt == args.entry = "SPDXVerifier" /\ pc = "done"

\* C21: for every state of the configuration source (missing, unreadable,
\* invalid, empty, or with a section of the wrong shape) loading it and
\* building the verifier does not raise and yields a "languages" mapping and
\* a "default_skip_patterns" list; a missing, unreadable or unparseable
\* source yields exactly the built-in defaults, and a section absent from a
\* parsed source keeps its built-in default.
C21_ConfigAlwaysUsable ==
    ConfigBuilt =>
        LET source == h_in.config_source
            config == h_out[1]
        IN  /\ ~h_out[3].raised
            /\ config.languages.shape = "dict"
            /\ config.default_skip_patterns.shape = "list"
            /\ source.state \in {"missing", "unreadable", "invalid"} =>
                   /\ config.languages.value = DefaultLanguages
                   /\ config.default_skip_patterns.value = DefaultSkipPatterns
            /\ (source.state = "mapping" /\ source.languages = <<>>) =>
                   config.languages.value = DefaultLanguages
            /\ (source.state = "mapping" /\ source.default_skip_patterns = <<>>) =>
                   config.default_skip_patterns.value = DefaultSkipPatterns

\* The part of C21 the code keeps: no raise and the stated sections for every
\* source but a parsed mapping with a section of another shape.
C21_WellShaped ==
    (ConfigBuilt /\ ~InitRaises(h_out[1])) =>
        LET source == h_in.config_source
            config == h_out[1]
        IN  /\ ~h_out[3].raised
            /\ source.state # "mapping" =>
                   /\ config.languages.value = DefaultLanguages
                   /\ config.default_skip_patterns.value = DefaultSkipPatterns
            /\ (source.state = "mapping" /\ source.languages = <<>>) =>
                   config.languages.value = DefaultLanguages
            /\ (source.state = "mapping" /\ source.default_skip_patterns = <<>>) =>
                   config.default_skip_patterns.value = DefaultSkipPatterns

\* load_gitignore_patterns has returned.
GitignoreLoaded == args.entry = "SPDXVerifier" /\ pc \in {"gitignore", "done"}

\* C22: load_gitignore_patterns never raises, and when the read of .gitignore
\* fails, at whatever point, it contributes no pattern.
C22_FailedReadContributesNothing ==
    GitignoreLoaded =>
        (h_in.gitignore_file.fails_at # <<>> => h_out[2] = <<>>)

\* The part of C22 the code keeps: a read that fails contributes the patterns
\* of the lines read before the failure, and none when the opening fails.
C22_PatternsBeforeFailure ==
    GitignoreLoaded =>
        LET file == h_in.gitignore_file
            read == IF ~file.exists THEN 0
                    ELSE IF file.fails_at = <<>> THEN Len(file.lines)
                    ELSE file.fails_at[1]
        IN  /\ Range(h_out[2]) =
                   {Strip(file.lines[i]) : i \in 1..read} \ ({""} \cup
                       {Strip(file.lines[i]) : i \in {j \in 1..read : StartsWith(Strip(file.lines[j]), "#")}})
            /\ (file.exists /\ file.fails_at = <<0>>) => h_out[2] = <<>>

(***************************************************************************)
(* The walks together with the direct calls of the three queries           *)
(* (SpecFrame)                                                             *)
(***************************************************************************)

InitFrame == Init \/ HeaderInit \/ LangInit \/ SkipInit
NextFrame == Next \/ NextHeader \/ NextLang \/ NextSkip
SpecFrame == InitFrame /\ [][NextFrame]_vars

\* A step that is a call of get_language_for_file, should_skip_file or
\* check_license_header on a built verifier.
QueryStep ==
    \/ args.entry = "check_license_header"
    \/ args.entry \in {"get_language_for_file", "should_skip_file"} /\ pc # "start"

\* A step of verify or verify_directory that has a file in hand.
WalkerHasFile ==
    /\ args.entry \in {"verify", "verify_directory"}
    /\ AtDirFile \/ AtSingleFile

\* C23: a call of get_language_for_file, should_skip_file or
\* check_license_header leaves the counters, the skip patterns and both
\* registries as they were, and the counters change only in a step of
\* verify_directory or of the single-file branch of verify that processes a
\* file.
C23_QueriesChangeNothing ==
    [][ /\ QueryStep =>
              /\ stats' = stats
              /\ verifier'.skip_patterns = verifier.skip_patterns
              /\ verifier'.ext_to_lang = verifier.ext_to_lang
              /\ verifier'.filename_to_lang = verifier.filename_to_lang
        /\ stats' # stats => WalkerHasFile ]_vars

\* should_skip_file has answered "skip" twice on a verifier whose counters
\* are all zero.
C23_Witness ==
    /\ args.entry = "should_skip_file"
    /\ pc = "done"
    /\ h_out = <<TRUE, TRUE>>
    /\ stats = InitialStats
    /\ verifier.skip_patterns # <<>>

(***************************************************************************)
(* A file written from a language's own header patterns, resolved and      *)
(* checked (SpecRound)                                                     *)
(***************************************************************************)

\* The "patterns" of the comment styles of default_config: the license and
\* the copyright declaration pattern.
HASH_PATTERNS == << "# " \o SPDX_LICENSE_IDENTIFIER, "# " \o SPDX_FILE_COPYRIGHT >>
SLASH_PATTERNS == << "// " \o SPDX_LICENSE_IDENTIFIER, "// " \o SPDX_FILE_COPYRIGHT >>
C_STYLE_PATTERNS == << "/* " \o SPDX_LICENSE_IDENTIFIER, "/* " \o SPDX_FILE_COPYRIGHT >>
HTML_PATTERNS == << "<!-- " \o SPDX_LICENSE_IDENTIFIER, "<!-- " \o SPDX_FILE_COPYRIGHT >>

\* The "patterns" key of a language: of default_config, and of the loaded
\* table (hash for its languages but "c").
LanguagePatterns(name) ==
    IF name \in {"javascript", "c_cpp", "java", "rust", "go", "php", "c"} THEN SLASH_PATTERNS
    ELSE IF name = "css" THEN C_STYLE_PATTERNS
    ELSE IF name \in {"html", "markdown"} THEN HTML_PATTERNS
    ELSE HASH_PATTERNS

\* The file the round trip writes: each pattern followed by the expected
\* value, then a blank line and content.
CanonicalContent(name, license_id, holder) ==
    LanguagePatterns(name)[1] \o " " \o license_id \o "\n"
      \o LanguagePatterns(name)[2] \o " 2025 " \o holder \o "\n\ncontent here\n"

\* The file names: the stem followed by the extension string.
RoundStems == {"test", "src/main"}

\* One call for every language of the table, each of its extensions, each
\* stem and each expected pair.
RoundCalls(languages) ==
    UNION { UNION { { [language |-> languages[i].name,
                       file_path |-> s \o languages[i].extensions[j],
                       file |-> File(CanonicalContent(languages[i].name, x[1], x[2]), TRUE),
                       expected |-> x] :
                        s \in RoundStems, x \in WalkExpected } :
                    j \in 1..Len(languages[i].extensions) } :
            i \in 1..Len(languages) }

RoundInit ==
    /\ \/ /\ h_in \in RoundCalls(DefaultLanguages)
          /\ env = MakeEnv(<<>>, PlainGit, PlainSkip, <<>>)
       \/ /\ h_in \in RoundCalls(LoadedLanguages)
          /\ env = [MakeEnv(<<>>, PlainGit, PlainSkip, <<>>)
                       EXCEPT !.config_file = ConfigFile(<<LoadedLanguages>>, <<>>)]
    /\ args = MakeArgs("round_trip", <<>>, h_in.expected, PlainGit, PlainSkip)
    /\ RunInit
    /\ h_out = <<>>

\* SPDXVerifier(license_id, copyright_holder).
RoundConstruct ==
    /\ args.entry = "round_trip"
    /\ pc = "start"
    /\ verifier' = NewVerifier(args, env)
    /\ pc' = "built"
    /\ UNCHANGED <<inVars, hdrVars, git_tracked_files, path_idx, cur_dir, dir_todo,
                   dir_passed, dir_result, stats, all_passed, reuse, exit_code, output>>

\* verifier.get_language_for_file(test_file).
RoundResolve ==
    /\ args.entry = "round_trip"
    /\ pc = "built"
    /\ h_out' = <<get_language_for_file(verifier, h_in.file_path)>>
    /\ pc' = "resolved"
    /\ UNCHANGED <<inVars, h_in, verifier, git_tracked_files, path_idx, cur_dir, dir_todo,
                   dir_passed, dir_result, stats, all_passed, reuse, exit_code, output>>

\* verifier.check_license_header(test_file).
RoundCheck ==
    /\ args.entry = "round_trip"
    /\ pc = "resolved"
    /\ h_out' = Append(h_out, check_license_header(verifier, h_in.file_path, h_in.file))
    /\ pc' = "done"
    /\ UNCHANGED <<inVars, h_in, verifier, git_tracked_files, path_idx, cur_dir, dir_todo,
                   dir_passed, dir_result, stats, all_passed, reuse, exit_code, output>>

NextRound == RoundConstruct \/ RoundResolve \/ RoundCheck

SpecRound == RoundInit /\ [][NextRound]_vars

\* Both calls of the round trip have returned.
RoundDone == args.entry = "round_trip" /\ pc = "done"

ReuseRequested ==
    args.reuse_compliance /\ args.pre_commit_mode /\ ~git_tracked_files.none

\* An input path that is neither a regular file nor a directory.
SomePathBad ==
    \E i \in 1..Len(args.paths) : ~IsFile(env, args.paths[i]) /\ ~IsDir(env, args.paths[i])

glob_match_guarded(path, pattern, is_str) ==
    IF ~is_str THEN FALSE ELSE glob_match(path, pattern)

GlobPaths ==
    { "app.min.js", "app.js", "src/app.min.js", "file1.py", "docs/file?.py", "lib/x.temp",
      "proj/node_modules/m.js", "my_lib.py", "lib", "a/lib", "ab", "src/deep/a.js" }
GlobPatterns ==
    { "*.min.js", "lib", "node_modules/*", "file?.py", "*", "src/*.js", "??", "a*?",
      "x.temp", "*/lib", "" }

GlobInit ==
    /\ h_in \in { [path |-> p, pattern |-> q, is_str |-> TRUE] :
                     p \in GlobPaths, q \in GlobPatterns }
               \cup { [path |-> p, pattern |-> "", is_str |-> FALSE] : p \in GlobPaths }
    /\ env = [MakeEnv(<<>>, PlainGit, PlainSkip, <<>>) EXCEPT !.has_pathspec = FALSE]
    /\ args = MakeArgs("_glob_match", <<>>, PlainExpected, PlainGit, PlainSkip)
    /\ RunInit
    /\ h_out = <<>>

GlobCall ==
    /\ args.entry = "_glob_match"
    /\ pc = "start"
    /\ h_out' = <<glob_match_guarded(h_in.path, h_in.pattern, h_in.is_str)>>
    /\ pc' = "done"
    /\ UNCHANGED <<inVars, h_in, verifier, git_tracked_files, path_idx, cur_dir, dir_todo,
                   dir_passed, dir_result, stats, all_passed, reuse, exit_code, output>>

NextGlob == GlobCall

SpecGlob == GlobInit /\ [][NextGlob]_vars

\* _glob_match has returned.
GlobCalled == args.entry = "_glob_match" /\ pc = "done"

\* The bare name of the path, and shell-style matching of a whole string.
BareName == PathName(h_in.path)
ShellMatch(pattern, s) == WildMatch(pattern, s)

\* C26 (as amended): the fallback matcher never raises; a pattern that
\* contains "*" is matched with shell-style wildcard matching against the
\* full path and against the bare name; a pattern without "*", also one with
\* "?", matches iff it is a substring of the full path or equals the bare
\* name, character for character; an internal error counts as no match.
C26_FallbackMatcher ==
    GlobCalled =>
        h_out[1] = IF ~h_in.is_str THEN FALSE
                   ELSE IF \E i \in 1..Len(h_in.pattern) : SubSeq(h_in.pattern, i, i) = "*"
                   THEN ShellMatch(h_in.pattern, h_in.path) \/ ShellMatch(h_in.pattern, BareName)
                   ELSE \/ \E i \in 1..(Len(h_in.path) - Len(h_in.pattern) + 1) :
                              SubSeq(h_in.path, i, i + Len(h_in.pattern) - 1) = h_in.pattern
                        \/ h_in.pattern = BareName

\* A pattern with "*" matched the bare name and not the full path.
C26_Witness ==
    /\ GlobCalled
    /\ h_in.pattern = "a*?"
    /\ h_in.path = "src/deep/a.js"
    /\ h_out = <<TRUE>>

\* C26 (as stated): a pattern containing a wildcard character ("*" or "?")
\* is matched with shell-style wildcard matching against the full path and
\* the bare name, a pattern without one by substring or equality, and an
\* internal error counts as no match.
C26_AsStated ==
    GlobCalled =>
        h_out[1] = IF ~h_in.is_str THEN FALSE
                   ELSE IF \E i \in 1..Len(h_in.pattern) :
                              SubSeq(h_in.pattern, i, i) \in {"*", "?"}
                   THEN ShellMatch(h_in.pattern, h_in.path) \/ ShellMatch(h_in.pattern, BareName)
                   ELSE \/ \E i \in 1..(Len(h_in.path) - Len(h_in.pattern) + 1) :
                              SubSeq(h_in.path, i, i + Len(h_in.pattern) - 1) = h_in.pattern
                        \/ h_in.pattern = BareName

\* For C27: the lines the sink holds when every write succeeds.
AllOutputs ==
    << "passed=" \o (IF exit_code = <<0>> THEN "true" ELSE "false") \o "\n",
       "files_checked=" \o Str(stats.checked) \o "\n",
       "files_passed=" \o Str(stats.passed) \o "\n",
       "files_failed=" \o Str(stats.checked - stats.passed) \o "\n" >>
OutputNames == <<"passed", "files_checked", "files_passed", "files_failed">>
Written(i) == OutputNames[i] \notin env.github_output.fails

\* C27 (as amended): under GitHub Actions with an output file designated by
\* GITHUB_OUTPUT, verify appends passed, files_checked, files_passed and
\* files_failed (= files_checked - files_passed), in this order, after all
\* paths are processed and as it ends, also when the run fails; an output
\* whose write fails is left out and nothing is raised; outside GitHub
\* Actions, or with no output file designated, nothing is written.
C27_GithubOutputs ==
    /\ [](VerifyEnded =>
            /\ exit_code \in {<<0>>, <<1>>}
            /\ h_out = IF env.github_actions /\ env.github_output.set
                       THEN SelectSeq(AllOutputs,
                                      LAMBDA l : \E i \in 1..4 : l = AllOutputs[i] /\ Written(i))
                       ELSE <<>>)
    /\ [][(args.entry = "verify" /\ h_out' # h_out) =>
            /\ pc = "summary" /\ pc' = "done"
            /\ path_idx > Len(args.paths)]_vars

\* A failing run under GitHub Actions wrote all four outputs.
C27_Witness ==
    /\ VerifyEnded
    /\ exit_code = <<1>>
    /\ Len(h_out) = 4
    /\ h_out[1] = "passed=false\n"
    /\ stats.checked > stats.passed

\* C27 (as stated): under a detected CI environment verify writes the four
\* outputs, also when the run fails, a write that fails apart; outside one,
\* nothing is written.
C27_AsStated ==
    VerifyEnded =>
        h_out = IF env.github_actions
                THEN SelectSeq(AllOutputs,
                               LAMBDA l : \E i \in 1..4 : l = AllOutputs[i] /\ Written(i))
                ELSE <<>>

\* For C28: the names of the counters, and the walk has ended.
CounterNames ==
    {"checked", "passed", "missing_license", "missing_copyright", "wrong_license",
     "wrong_copyright", "skipped"}
WalkEnded == pc = "done" /\ args.entry \in {"verify", "verify_directory"}

\* The visits of the walk, an input path taken again each time it is listed,
\* that are of a file and are not excluded by the tracked-file filter.
CountedVisits ==
    LET visits == Visits(1)
    IN  {i \in 1..Len(visits) : ~visits[i].bad /\ ~OutsideFilter(visits[i].file)}

\* C28: at every point of a walk every counter is non-negative and
\* passed <= checked; no step decreases a counter; and when the walk has
\* ended checked + skipped is the number of file visits not excluded by the
\* tracked-file filter, a file reached through two input paths counting
\* twice.
C28_CountersAccumulate ==
    /\ [](/\ \A c \in CounterNames : stats[c] >= 0
          /\ stats.passed <= stats.checked)
    /\ [][\A c \in CounterNames : stats'[c] >= stats[c]]_vars
    /\ [](WalkEnded => stats.checked + stats.skipped = Cardinality(CountedVisits))

\* A file given as an input path after the directory that holds it was
\* checked twice.
C28_Witness ==
    /\ VerifyEnded
    /\ args.paths = <<"proj", FileA>>
    /\ Cardinality({i \in 1..Len(output) :
                      output[i].path = FileA /\ output[i].kind \in {"PASS", "FAIL"}}) = 2
    /\ stats.checked + stats.skipped = 5

\* C29: a file is counted in checked only in a walker step that has the file
\* in hand and resolves a language for it, and no verdict printed for a
\* checked file is the trivial pass "Unknown file type, skipping": the
\* resolution inside check_license_header agrees with the walker's.
C29_CheckedHadLanguage ==
    /\ [][stats'.checked # stats.checked =>
            /\ WalkerHasFile
            /\ get_language_for_file(verifier, StepFile) # None
            /\ stats'.checked = stats.checked + 1
            /\ Len(output') = Len(output) + 1
            /\ output'[Len(output')].kind \in {"PASS", "FAIL"}
            /\ output'[Len(output')].message # "Unknown file type, skipping"]_vars
    /\ [](/\ \A i \in 1..Len(output) :
                output[i].kind \in {"PASS", "FAIL"} =>
                    /\ output[i].message # "Unknown file type, skipping"
                    /\ get_language_for_file(verifier, output[i].path) # None
          /\ stats.checked = Cardinality({i \in 1..Len(output) :
                                             output[i].kind \in {"PASS", "FAIL"}})
          /\ stats.passed = Cardinality({i \in 1..Len(output) : output[i].kind = "PASS"}))

\* A walk skipped a file of unresolved language and passed another file.
C29_Witness ==
    /\ WalkEnded
    /\ "SKIP_UNKNOWN" \in Kinds(output)
    /\ stats.passed >= 1
    /\ stats.checked > stats.passed
    /\ stats.skipped >= 2

\* For C30: a step of a directory walk that prints a failing verdict, the
\* verdict's message, and the change of a counter in the step.
DirFailStep ==
    /\ pc = "dir"
    /\ stats'.checked = stats.checked + 1
    /\ output'[Len(output')].kind = "FAIL"
FailMessage == output'[Len(output')].message
Delta(c) == stats'[c] - stats[c]
ReasonDeltas(ml, mc, wl, wc) ==
    /\ Delta("missing_license") = ml
    /\ Delta("missing_copyright") = mc
    /\ Delta("wrong_license") = wl
    /\ Delta("wrong_copyright") = wc

\* C30: in a directory walk a failing verdict changes the reason counters
\* exactly as its reason says: missing both, missing_license and
\* missing_copyright + 1 each; missing license or missing copyright, that
\* counter + 1 only; wrong both, wrong_license and wrong_copyright + 1 each;
\* wrong license or wrong copyright, that counter + 1 only; a read error, no
\* reason counter changes.
C30_ReasonCountersFollowVerdict ==
    [][DirFailStep =>
         IF FailMessage = "Missing both license and copyright headers"
         THEN ReasonDeltas(1, 1, 0, 0)
         ELSE IF FailMessage = "Missing license header" THEN ReasonDeltas(1, 0, 0, 0)
         ELSE IF FailMessage = "Missing copyright header" THEN ReasonDeltas(0, 1, 0, 0)
         ELSE IF StartsWith(FailMessage, "Wrong license and copyright (expected ")
         THEN ReasonDeltas(0, 0, 1, 1)
         ELSE IF StartsWith(FailMessage, "Wrong license (expected ")
         THEN ReasonDeltas(0, 0, 1, 0)
         ELSE IF StartsWith(FailMessage, "Wrong copyright (expected ")
         THEN ReasonDeltas(0, 0, 0, 1)
         ELSE StartsWith(FailMessage, "Error reading file: ") /\ ReasonDeltas(0, 0, 0, 0)]_vars

\* The part of C30 the code keeps: the same for expected values that do not
\* contain the words "license" or "copyright" in any case.
C30_PlainExpectedValues ==
    [][(DirFailStep /\ ~Contains("license", Lower(args.license \o " " \o args.copyright_holder))
                    /\ ~Contains("copyright", Lower(args.license \o " " \o args.copyright_holder))) =>
         IF FailMessage = "Missing both license and copyright headers"
         THEN ReasonDeltas(1, 1, 0, 0)
         ELSE IF FailMessage = "Missing license header" THEN ReasonDeltas(1, 0, 0, 0)
         ELSE IF FailMessage = "Missing copyright header" THEN ReasonDeltas(0, 1, 0, 0)
         ELSE IF StartsWith(FailMessage, "Wrong license and copyright (expected ")
         THEN ReasonDeltas(0, 0, 1, 1)
         ELSE IF StartsWith(FailMessage, "Wrong license (expected ")
         THEN ReasonDeltas(0, 0, 1, 0)
         ELSE IF StartsWith(FailMessage, "Wrong copyright (expected ")
         THEN ReasonDeltas(0, 0, 0, 1)
         ELSE StartsWith(FailMessage, "Error reading file: ") /\ ReasonDeltas(0, 0, 0, 0)]_vars

====
